---- MODULE Spec2Model ----
(***************************************************************************)
(* Message channels of CNDP (lib/usr/clib/msgchan): a parent channel owns  *)
(* two rings and an array of child slots; children attach by name and see  *)
(* the parent's ring pair reversed.  The registry of parents is a TAILQ    *)
(* guarded by a mutex; child slots are claimed by compare-and-swap.        *)
(*                                                                         *)
(* The model follows msgchan.c step by step: every access to memory that   *)
(* other threads can reach without the registry mutex is a step of its own *)
(* (each compare-and-swap of mc_child_alloc and mc_child_free, the header  *)
(* writes of attach_child, the memset of mc_destroy), and every section    *)
(* run under the mutex holds it across its steps.  mc_send and mc_recv are *)
(* modelled twice: as one step each (McSend, McRecv), for callers that do  *)
(* not overlap, and fetch-add by fetch-add (SendEnter .. SendDone,         *)
(* RecvEnter .. RecvCount), with the polling loop and its clock, for       *)
(* callers that do.  The ring and the clock are collaborators outside      *)
(* msgchan.c: a bounded FIFO and a tick counter that only advances.        *)
(***************************************************************************)
EXTENDS Integers, Sequences, FiniteSets, TLC

\* ------------------------------------------------------------------ bounds
\* Slots of msg_chan.children.  The source has 32; the model scales the
\* array down, every loop over it runs over 0..MC_MAX_CHILDREN-1 as in C.
MC_MAX_CHILDREN == 2
\* log2 of the element count callers pass to mc_create (a power of two).
CountLog2 == 2
\* Objects one mc_send call offers at most / one mc_recv call asks for.
MaxBurst == 2
\* Calls of mc_send and mc_recv over a whole behaviour of SpecData.
MaxDataCalls == 4
\* Calls of mc_send and mc_recv over a whole behaviour of SpecUse.
MaxUseCalls == 2
\* Width in bits of the time stamp counter and of msec (uint64_t in the code).
ClockBits == 3
\* The clock stops advancing at MaxClock ticks.
MaxClock == 3
\* Dequeue attempts of one mc_recv call that are told apart.
MaxTries == 2
\* Calls of mc_send and mc_recv over a whole behaviour of SpecPoll, SpecWait.
MaxPollCalls == 2
\* Calls of mc_send and mc_recv over a whole behaviour of SpecLock.
MaxLockCalls == 1
\* Calls of mc_send and mc_recv over a whole behaviour of SpecRace, SpecInfo.
MaxRaceCalls == 2
\* Calls of mc_send and mc_recv over a whole behaviour of SpecTear.
MaxTearCalls == 1
\* Calls of mc_send on a full ring and of mc_recv on an empty ring over a
\* whole behaviour of SpecLoop.
MaxLoopSpins == 2

\* --------------------------------------------------------------- constants
MC_FREE_COOKIE   == 0
MC_PARENT_COOKIE == 1130914158      \* 'C' << 24 | 'h' << 16 | 'a' << 8 | 'n'
MC_CHILD_COOKIE  == 1265198180      \* 'K' << 24 | 'i' << 16 | 'd' << 8 | 'd'
MC_RECV_RING     == 1               \* rings[0] (TLA+ tuples start at 1)
MC_SEND_RING     == 2               \* rings[1]
MC_MEM_ALLOCATED == 1073741824      \* 0x40000000
FlagsModulus     == 65536           \* uint16_t msg_chan.flags
\* The flags argument of mc_init is a set of bit positions of a uint32_t.
MC_NO_CHILD_CREATE == 31            \* 0x80000000
MC_MEM_ALLOCATED_BIT == 30          \* 0x40000000, as a bit of that argument
RING_F_SP_ENQ    == 0               \* 0x0001
RING_F_SC_DEQ    == 1               \* 0x0002
RING_F_EXACT_SZ  == 2               \* 0x0004
RING_DFLT_ELEM_SZ == 8              \* bytes of a ring entry when esize is 0

MC_PARENT_PREFIX == <<"P", ":">>
MC_CHILD_PREFIX(index) == <<"C", index, ":">>

Threads == {"t1", "t2", "t3"}
NoThread == "none"
Names   == {<<"a">>, <<"b">>}

\* The msg_chan blocks calloc can hand out; none is handed out twice.
Blocks  == {1, 2}
Slots   == 0 .. (MC_MAX_CHILDREN - 1)
\* A msgchan_t pointer: <<block, -1>> is the msg_chan itself (its hdr is the
\* first member), <<block, i>> is &children[i].
PARENT_SLOT == -1
Ptrs    == Blocks \X ({PARENT_SLOT} \cup Slots)
NULL    == <<0, PARENT_SLOT>>
NULL_STR == <<"NULL">>              \* a NULL char pointer
RingIds == {1, 2, 3, 4}             \* two rings per block
NULL_RING == 0

Min(a, b) == IF a < b THEN a ELSE b

VARIABLES
    registry,   \* the mc_tailq list: the te->data pointers, in list order
    mutex,      \* owner of mc_list_mutex, or NoThread
    mem,        \* per block: "none" (never allocated), "heap", "freed",
                \* "caller" (memory the caller gave to mc_init)
    flags,      \* msg_chan.flags per block
    hdr,        \* mc_common per pointer (the parent's and each child slot's)
    ring,       \* per ring id: [st, cap, q]
    th,         \* per thread: the call in progress and its locals
    hs,         \* history: per pointer, "unknown" (never returned), "live"
                \* (returned by mc_init), "destroyed" (passed to mc_destroy)
    sent,       \* history: per pointer, the objects mc_send accepted from it
    got,        \* history: per pointer, the objects mc_recv returned to it
    ncalls,     \* history: calls of mc_send and mc_recv so far
    clock       \* the time stamp counter cne_rdtsc_precise reads, in ticks

vars == <<registry, mutex, mem, flags, hdr, ring, th, hs, sent, got, ncalls, clock>>
\* Everything but the threads' own locals.
Frame == <<registry, mutex, mem, flags, hdr, ring, hs, sent, got, ncalls, clock>>

\* ---------------------------------------------------------------- records
ZeroHdr ==
    [cookie |-> MC_FREE_COOKIE, index |-> 0, name |-> <<>>,
     rings |-> <<NULL_RING, NULL_RING>>,
     send_calls |-> 0, send_cnt |-> 0, send_full |-> 0,
     recv_calls |-> 0, recv_cnt |-> 0, recv_empty |-> 0]

NoRing == [st |-> "none", cap |-> 0, q |-> <<>>]

\* A thread between calls.  h: the msgchan_t argument or local mc/ch;
\* i: the loop index; ret: the value returned (pc = "ret"); ub: the call
\* read or wrote memory that was freed or never set up.
\* count: the count argument; te: whether mc_destroy found the list entry;
\* out: what the call wrote through its output pointers.
\* objs: the objs argument of mc_send / mc_recv, an array or NULL.
\* msec, nb_objs, begin, stop: the msec argument and the locals of __send and
\* __recv.  History of the call in progress: tries, the dequeue attempts it
\* made (MaxTries stands for that many or more); start, the clock when it was entered; was, the header it found.
\* addr, size, esize, flags: the arguments of mc_init; allow: its local
\* allow_child_create; errno: the errno a failing call set.
Idle == [pc |-> "idle", op |-> "none", h |-> NULL, name |-> <<>>, count |-> 0,
         objs |-> "none",
         addr |-> NULL, size |-> 0, esize |-> 0, flags |-> {}, allow |-> FALSE,
         errno |-> "none",
         i |-> 0, te |-> FALSE, ret |-> 0, out |-> <<>>, ub |-> FALSE,
         msec |-> 0, nb_objs |-> 0, begin |-> 0, stop |-> 0,
         tries |-> 0, start |-> 0, was |-> ZeroHdr]

Init ==
    /\ registry = <<>>
    /\ mutex = NoThread
    /\ mem = [b \in Blocks |-> "none"]
    /\ flags = [b \in Blocks |-> 0]
    /\ hdr = [p \in Ptrs |-> ZeroHdr]
    /\ ring = [r \in RingIds |-> NoRing]
    /\ th = [t \in Threads |-> Idle]
    /\ hs = [p \in Ptrs |-> "unknown"]
    /\ sent = [p \in Ptrs |-> 0]
    /\ got = [p \in Ptrs |-> <<>>]
    /\ ncalls = 0
    /\ clock = 0

\* ---------------------------------------------------------------- helpers
Parent(b) == <<b, PARENT_SLOT>>
Child(b, i) == <<b, i>>
RecvRingOf(b) == 2 * b - 1          \* the ring created first  ("RR:" name)
SendRingOf(b) == 2 * b              \* the ring created second ("SR:" name)

\* x & bit, x | bit for a single-bit mask.
HasBit(x, bit) == (x \div bit) % 2 = 1
SetBit(x, bit) == IF HasBit(x, bit) THEN x ELSE x + bit

\* s + 2 for a NUL-terminated string of at least two characters.
Skip2(s) == IF Len(s) >= 2 THEN SubSeq(s, 3, Len(s)) ELSE <<>>

RECURSIVE Remove(_, _)
Remove(list, b) ==
    IF list = <<>> THEN <<>>
    ELSE IF Head(list) = b THEN Tail(list)
    ELSE <<Head(list)>> \o Remove(Tail(list), b)

InList(list, b) == \E k \in 1 .. Len(list) : list[k] = b

\* TAILQ_FOREACH of mc_lookup: the first entry whose name is pname.
RECURSIVE LookupFrom(_, _)
LookupFrom(list, pname) ==
    IF list = <<>> THEN NULL
    ELSE IF hdr[Parent(Head(list))].name = pname THEN Parent(Head(list))
    ELSE LookupFrom(Tail(list), pname)

\* Variant of mc_lookup: the name is compared as given, without the prefix.
mc_lookup_unqualified(name) ==
    IF name = NULL_STR THEN NULL ELSE LookupFrom(registry, name)

\* mc_lookup(name): NULL for a NULL name, else the walk over the list with
\* "P:" put before the name.
mc_lookup(name) ==
    IF name = NULL_STR THEN NULL ELSE LookupFrom(registry, MC_PARENT_PREFIX \o name)

\* cne_ring_create(rname, esize, count, flags) without RING_F_EXACT_SZ: a
\* ring of count entries holds count - 1 objects.
RingCapacity(count) == count - 1
NewRing(count) == [st |-> "live", cap |-> RingCapacity(count), q |-> <<>>]
\* cne_ring_free(r): NULL is ignored.
FreeRings(rs) ==
    [r \in RingIds |-> IF r \in rs THEN [ring[r] EXCEPT !.st = "freed"] ELSE ring[r]]

\* The call of thread t returns v.
Returns(t, op, h, v, ub) ==
    [th EXCEPT ![t] = [Idle EXCEPT !.pc = "ret", !.op = op, !.h = h,
                                    !.ret = v, !.ub = ub]]
ReturnsOut(t, op, h, v, out, ub) ==
    [th EXCEPT ![t] = [Idle EXCEPT !.pc = "ret", !.op = op, !.h = h,
                                    !.ret = v, !.out = out, !.ub = ub]]
ReturnsArg(t, op, h, objs, count, v, out, ub) ==
    [th EXCEPT ![t] = [Idle EXCEPT !.pc = "ret", !.op = op, !.h = h, !.count = count,
                                    !.objs = objs,
                                    !.ret = v, !.out = out, !.ub = ub]]

\* The pointers a caller can pass: NULL and every pointer some call returned.
Known == {p \in Ptrs : hs[p] # "unknown"}
Handles == Known \cup {NULL}

\* ------------------------------------------------------------------ mc_init
\* CNE_ALIGN(val, align): val rounded up to a multiple of align.
CNE_ALIGN(val, align) == ((val + align - 1) \div align) * align

\* The collaborators of the size computation, outside msgchan.c: the cache
\* line, the largest ring (scaled with the counts callers pass), the power
\* of two test and the bytes one ring takes.
CNE_CACHE_LINE_SIZE == 64
CNE_RING_SZ_MASK == 2 ^ (CountLog2 + 1) - 1
cne_is_power_of_2(n) == \E k \in 0 .. (CountLog2 + 2) : n = 2 ^ k
sizeof_cne_ring == 192
cne_ring_get_memsize_elem(esize, count) == sizeof_cne_ring + esize * count

\* sizeof(mc_common_t), cache aligned, and sizeof(struct msg_chan): the
\* header, the flags padded to a cache line, the children.
sizeof_mc_common == 128
sizeof_msg_chan ==
    sizeof_mc_common + CNE_CACHE_LINE_SIZE + MC_MAX_CHILDREN * sizeof_mc_common

\* Variant of mc_get_total_memsize: the size is not rounded up.
mc_get_total_memsize_unaligned(esize, count) ==
    LET e == IF esize = 0 THEN RING_DFLT_ELEM_SZ ELSE esize IN
    IF e % 4 # 0 THEN -1
    ELSE IF ~cne_is_power_of_2(count) \/ count > CNE_RING_SZ_MASK THEN -1
    ELSE sizeof_msg_chan + cne_ring_get_memsize_elem(e, count) * 2

\* mc_get_total_memsize(esize, count): -1, or the bytes of a msg_chan and
\* its two rings rounded up to the cache line.
mc_get_total_memsize(esize, count) ==
    LET e == IF esize = 0 THEN RING_DFLT_ELEM_SZ ELSE esize IN
    IF e % 4 # 0 THEN -1
    ELSE IF ~cne_is_power_of_2(count) \/ count > CNE_RING_SZ_MASK THEN -1
    ELSE CNE_ALIGN(sizeof_msg_chan + cne_ring_get_memsize_elem(e, count) * 2,
                   CNE_CACHE_LINE_SIZE)

\* The flag bits mc_init accepts.
McInitFlags == {MC_NO_CHILD_CREATE, RING_F_EXACT_SZ, RING_F_SC_DEQ, RING_F_SP_ENQ}

\* Variant of McInitChecks: the flags are not looked at.
McInitChecksNoFlags(addr, size, name, count, rflags) ==
    IF addr # NULL /\ size = 0 THEN "EINVAL"
    ELSE IF name = NULL_STR THEN "EINVAL"
    ELSE IF count = 0 THEN "EINVAL"
    ELSE "none"

\* The argument checks at the head of mc_init, in the order of the code:
\* the errno of the first that fails, or "none".  (The names callers pass
\* here fit the name field.)
McInitChecks(addr, size, name, count, rflags) ==
    IF addr # NULL /\ size = 0 THEN "EINVAL"
    ELSE IF name = NULL_STR THEN "EINVAL"
    ELSE IF count = 0 THEN "EINVAL"
    ELSE IF rflags \ McInitFlags # {} THEN "EINVAL"
    ELSE "none"

\* Variant of AllowChildCreate: the bit is not looked at.
AllowChildCreateAlways(rflags) == TRUE

\* allow_child_create = ((flags & MC_NO_CHILD_CREATE) == 0).
AllowChildCreate(rflags) == MC_NO_CHILD_CREATE \notin rflags

\* mc_init from its entry to the return of mc_lookup: the argument checks,
\* allow_child_create, the lookup under the mutex.  rflags is the flags
\* argument; the thread's record keeps it as passed, the rings are created
\* from it without MC_NO_CHILD_CREATE.  Memory a caller passes is memory
\* no channel is in.
McInit(t, addr, size, name, esize, count, rflags) ==
    /\ th[t].pc = "idle"
    /\ addr # NULL => mem[addr[1]] = "none"
    /\ LET call == [Idle EXCEPT !.op = "init", !.addr = addr, !.size = size,
                                !.name = name, !.esize = esize, !.count = count,
                                !.flags = rflags]
           errno == McInitChecks(addr, size, name, count, rflags)
       IN  IF errno # "none"
           THEN th' = [th EXCEPT ![t] = [call EXCEPT !.pc = "ret", !.ret = NULL,
                                                     !.errno = errno]]
           ELSE /\ mutex = NoThread
                /\ LET allow_child_create == AllowChildCreate(rflags)
                       args == [call EXCEPT !.allow = allow_child_create]
                       mc == mc_lookup(name)
                   IN  th' = IF mc # NULL
                             THEN IF allow_child_create
                                  THEN [th EXCEPT ![t] = [args EXCEPT !.pc = "child_alloc",
                                                                      !.h = mc, !.i = 0]]
                                  ELSE [th EXCEPT ![t] = [args EXCEPT !.pc = "ret",
                                                                      !.ret = NULL]]
                             ELSE [th EXCEPT ![t] = [args EXCEPT !.pc = "init_create"]]
    /\ UNCHANGED Frame

\* mc_create(name, esize, count, rflags).
McCreate(t, name, esize, count, rflags) == McInit(t, NULL, 0, name, esize, count, rflags)

\* The block mc_init builds the channel in: the caller's when it is large
\* enough, else one calloc returns (pool: the blocks calloc can still
\* return); 0 when there is none.
InitMemory(addr, size, mc_size, pool) ==
    IF addr # NULL
    THEN IF mc_size > size THEN 0 ELSE addr[1]
    ELSE LET fresh == {b \in pool : mem[b] = "none"} IN
         IF fresh = {} THEN 0 ELSE CHOOSE x \in fresh : \A y \in fresh : x <= y

\* Variant of InitCreate: the parent is put on the list once its cookie,
\* name and Recv ring are set, before the Send ring and the child indices.
InitCreateVisible(t, pool) ==
    /\ th[t].pc = "init_create"
    /\ LET mc_size == mc_get_total_memsize(th[t].esize, th[t].count)
           addr == th[t].addr
           b == InitMemory(addr, th[t].size, mc_size, pool)
       IN
       IF mc_size < 0 \/ b = 0
       THEN /\ th' = [th EXCEPT ![t].pc = "ret", ![t].ret = NULL,
                                ![t].errno = IF mc_size < 0 THEN "EINVAL" ELSE "ENOMEM"]
            /\ UNCHANGED <<registry, mem, flags, hdr, ring>>
       ELSE /\ mem' = [mem EXCEPT ![b] = IF addr # NULL THEN "caller" ELSE "heap"]
            /\ flags' = [flags EXCEPT ![b] =
                            IF addr # NULL THEN 0
                            ELSE SetBit(0, MC_MEM_ALLOCATED) % FlagsModulus]
            /\ hdr' = [p \in Ptrs |->
                        IF p = Parent(b)
                        THEN [ZeroHdr EXCEPT !.cookie = MC_PARENT_COOKIE,
                                  !.name = MC_PARENT_PREFIX \o th[t].name,
                                  !.rings = <<RecvRingOf(b), NULL_RING>>]
                        ELSE IF p[1] = b THEN ZeroHdr
                        ELSE hdr[p]]
            /\ ring' = [ring EXCEPT ![RecvRingOf(b)] = NewRing(th[t].count)]
            /\ registry' = Append(registry, b)
            /\ th' = [th EXCEPT ![t].pc = "ret", ![t].h = NULL, ![t].ret = Parent(b)]
    /\ UNCHANGED <<mutex, hs, sent, got, ncalls, clock>>

\* mc_get_total_memsize, the memory (memset of the caller's, or calloc and
\* the MC_MEM_ALLOCATED flag), cookie, name, the two rings, the child
\* indices.
InitCreate(t, pool) ==
    /\ th[t].pc = "init_create"
    /\ LET mc_size == mc_get_total_memsize(th[t].esize, th[t].count)
           addr == th[t].addr
           b == InitMemory(addr, th[t].size, mc_size, pool)
       IN
       IF mc_size < 0 \/ b = 0
       THEN \* return NULL, or goto err with mc == NULL
            /\ th' = [th EXCEPT ![t].pc = "ret", ![t].ret = NULL,
                                ![t].errno = IF mc_size < 0 THEN "EINVAL" ELSE "ENOMEM"]
            /\ UNCHANGED <<mem, flags, hdr, ring>>
       ELSE /\ mem' = [mem EXCEPT ![b] = IF addr # NULL THEN "caller" ELSE "heap"]
            /\ flags' = [flags EXCEPT ![b] =
                            IF addr # NULL THEN 0
                            ELSE SetBit(0, MC_MEM_ALLOCATED) % FlagsModulus]
            /\ hdr' = [p \in Ptrs |->
                        IF p = Parent(b)
                        THEN [ZeroHdr EXCEPT !.cookie = MC_PARENT_COOKIE,
                                  !.name = MC_PARENT_PREFIX \o th[t].name,
                                  !.rings = <<RecvRingOf(b), SendRingOf(b)>>,
                                  !.index = MC_MAX_CHILDREN]
                        ELSE IF p[1] = b THEN [ZeroHdr EXCEPT !.index = p[2]]
                        ELSE hdr[p]]
            /\ ring' = [ring EXCEPT ![RecvRingOf(b)] = NewRing(th[t].count),
                                    ![SendRingOf(b)] = NewRing(th[t].count)]
            /\ th' = [th EXCEPT ![t].pc = "init_insert", ![t].h = Parent(b)]
    /\ UNCHANGED <<registry, mutex, hs, sent, got, ncalls, clock>>

\* mc_list_lock, TAILQ_INSERT_TAIL, mc_list_unlock, return mc.
InitInsert(t) ==
    /\ th[t].pc = "init_insert"
    /\ mutex = NoThread
    /\ registry' = Append(registry, th[t].h[1])
    /\ hs' = [hs EXCEPT ![th[t].h] = "live"]
    /\ th' = [th EXCEPT ![t].pc = "ret", ![t].h = NULL, ![t].ret = th[t].h]
    /\ UNCHANGED <<mutex, mem, flags, hdr, ring, sent, got, ncalls, clock>>

\* The err label of mc_init for the block of mc: both rings freed (a NULL
\* ring is ignored), the block zeroed and freed when its flags field has
\* MC_MEM_ALLOCATED, return NULL.
InitErr(t, mc, hdr1, ring1) ==
    LET b == mc[1]
        rs == {hdr1[mc].rings[MC_RECV_RING], hdr1[mc].rings[MC_SEND_RING]} \cap RingIds
        allocated == HasBit(flags'[b], MC_MEM_ALLOCATED)
    IN  /\ ring' = [r \in RingIds |->
                      IF r \in rs THEN [ring1[r] EXCEPT !.st = "freed"] ELSE ring1[r]]
        /\ hdr' = IF allocated
                  THEN [p \in Ptrs |-> IF p[1] = b THEN ZeroHdr ELSE hdr1[p]]
                  ELSE hdr1
        /\ mem' = [mem EXCEPT ![b] = IF allocated THEN "freed"
                                     ELSE IF th[t].addr # NULL THEN "caller" ELSE "heap"]
        /\ th' = [th EXCEPT ![t].pc = "ret", ![t].h = NULL, ![t].ret = NULL]

\* InitCreate when cne_ring_create returns NULL after made rings (0: the
\* Recv ring fails, 1: the Send ring fails): goto err.
InitCreateFail(t, pool, made) ==
    /\ th[t].pc = "init_create"
    /\ LET mc_size == mc_get_total_memsize(th[t].esize, th[t].count)
           addr == th[t].addr
           b == InitMemory(addr, th[t].size, mc_size, pool)
       IN  /\ mc_size >= 0 /\ b # 0
           /\ flags' = [flags EXCEPT ![b] =
                           IF addr # NULL THEN 0
                           ELSE SetBit(0, MC_MEM_ALLOCATED) % FlagsModulus]
           /\ InitErr(t, Parent(b),
                      [p \in Ptrs |->
                          IF p = Parent(b)
                          THEN [ZeroHdr EXCEPT !.cookie = MC_PARENT_COOKIE,
                                    !.name = MC_PARENT_PREFIX \o th[t].name,
                                    !.rings = <<IF made = 1 THEN RecvRingOf(b)
                                                ELSE NULL_RING, NULL_RING>>]
                          ELSE IF p[1] = b THEN ZeroHdr
                          ELSE hdr[p]],
                      IF made = 1
                      THEN [ring EXCEPT ![RecvRingOf(b)] = NewRing(th[t].count)]
                      ELSE ring)
    /\ UNCHANGED <<registry, mutex, hs, sent, got, ncalls, clock>>

\* InitInsert when calloc of the list entry returns NULL or mc_list_lock
\* fails: goto err, nothing is inserted and the mutex is not taken.
InitInsertFail(t) ==
    /\ th[t].pc = "init_insert"
    /\ flags' = flags
    /\ InitErr(t, th[t].h, hdr, ring)
    /\ UNCHANGED <<registry, mutex, hs, sent, got, ncalls, clock>>

\* Variant of ChildAlloc: the cookie is stored without being compared.
ChildAllocStore(t) ==
    /\ th[t].pc = "child_alloc"
    /\ hdr' = [hdr EXCEPT ![Child(th[t].h[1], th[t].i)].cookie = MC_CHILD_COOKIE]
    /\ th' = [th EXCEPT ![t].pc = "attach_fill"]
    /\ UNCHANGED <<registry, mutex, mem, flags, ring, hs, sent, got, ncalls, clock>>

\* Variant of ChildAlloc: when the loop ends, the child it looked at last is
\* returned in place of NULL.
ChildAllocLast(t) ==
    /\ th[t].pc = "child_alloc"
    /\ LET c == Child(th[t].h[1], th[t].i) IN
       IF hdr[c].cookie = MC_FREE_COOKIE
       THEN /\ hdr' = [hdr EXCEPT ![c].cookie = MC_CHILD_COOKIE]
            /\ th' = [th EXCEPT ![t].pc = "attach_fill"]
       ELSE /\ hdr' = hdr
            /\ th' = IF th[t].i + 1 < MC_MAX_CHILDREN
                     THEN [th EXCEPT ![t].i = th[t].i + 1]
                     ELSE [th EXCEPT ![t].pc = "attach_fill"]
    /\ UNCHANGED <<registry, mutex, mem, flags, ring, hs, sent, got, ncalls, clock>>

\* Variant of ChildAlloc: the free slot with the highest position is claimed.
ChildAllocHighest(t) ==
    /\ th[t].pc = "child_alloc"
    /\ LET free == {j \in Slots : hdr[Child(th[t].h[1], j)].cookie = MC_FREE_COOKIE} IN
       IF free # {}
       THEN LET top == CHOOSE j \in free : \A k \in free : k <= j IN
            /\ hdr' = [hdr EXCEPT ![Child(th[t].h[1], top)].cookie = MC_CHILD_COOKIE]
            /\ th' = [th EXCEPT ![t].pc = "attach_fill", ![t].i = top]
       ELSE /\ hdr' = hdr
            /\ th' = [th EXCEPT ![t].pc = "ret", ![t].h = NULL,
                                ![t].i = MC_MAX_CHILDREN, ![t].ret = NULL]
    /\ UNCHANGED <<registry, mutex, mem, flags, ring, hs, sent, got, ncalls, clock>>

\* One turn of the loop of mc_child_alloc: the compare-and-swap on slot i.
ChildAlloc(t) ==
    /\ th[t].pc = "child_alloc"
    /\ LET c == Child(th[t].h[1], th[t].i) IN
       IF hdr[c].cookie = MC_FREE_COOKIE
       THEN /\ hdr' = [hdr EXCEPT ![c].cookie = MC_CHILD_COOKIE]
            /\ th' = [th EXCEPT ![t].pc = "attach_fill"]
       ELSE /\ hdr' = hdr
            /\ th' = IF th[t].i + 1 < MC_MAX_CHILDREN
                     THEN [th EXCEPT ![t].i = th[t].i + 1]
                     ELSE [th EXCEPT ![t].pc = "ret", ![t].h = NULL,
                                     ![t].i = MC_MAX_CHILDREN, ![t].ret = NULL]
    /\ UNCHANGED <<registry, mutex, mem, flags, ring, hs, sent, got, ncalls, clock>>

\* Variant of ChildRings: the second assignment repeats the first ring.
ChildRingsSame(parent) ==
    <<hdr[parent].rings[MC_SEND_RING], hdr[parent].rings[MC_SEND_RING]>>

\* The ring pair attach_child gives a child: the parent's, swapped.
ChildRings(parent) ==
    <<hdr[parent].rings[MC_SEND_RING], hdr[parent].rings[MC_RECV_RING]>>

\* attach_child after mc_child_alloc: the child's name and its ring pair.
AttachFill(t) ==
    /\ th[t].pc = "attach_fill"
    /\ LET parent == th[t].h
           c == Child(parent[1], th[t].i)
       IN  /\ hdr' = [hdr EXCEPT
                        ![c].name = MC_CHILD_PREFIX(hdr[c].index) \o Skip2(hdr[parent].name),
                        ![c].rings = ChildRings(parent)]
           /\ hs' = [hs EXCEPT ![c] = "live"]
           /\ th' = [th EXCEPT ![t].pc = "ret", ![t].h = NULL, ![t].i = 0, ![t].ret = c]
    /\ UNCHANGED <<registry, mutex, mem, flags, ring, sent, got, ncalls, clock>>

\* --------------------------------------------------------------- mc_destroy
\* Variant of mc_child_free: every slot of the child's parent is freed.
mc_child_free_siblings(c) ==
    IF hdr[c].cookie # MC_FREE_COOKIE /\ hdr[c].cookie = MC_CHILD_COOKIE
    THEN [p \in Ptrs |->
            IF p[1] = c[1] /\ p[2] # PARENT_SLOT
            THEN [hdr[p] EXCEPT !.cookie = MC_FREE_COOKIE]
            ELSE hdr[p]]
    ELSE hdr

\* Variant of mc_child_free: the slot is zeroed as it is freed.
mc_child_free_zeroed(c) ==
    IF hdr[c].cookie # MC_FREE_COOKIE /\ hdr[c].cookie = MC_CHILD_COOKIE
    THEN [hdr EXCEPT ![c] = ZeroHdr]
    ELSE hdr

\* mc_child_free(child): a non-zero cookie is swapped from Child to Free.
mc_child_free(c) ==
    IF hdr[c].cookie # MC_FREE_COOKIE /\ hdr[c].cookie = MC_CHILD_COOKIE
    THEN [hdr EXCEPT ![c].cookie = MC_FREE_COOKIE]
    ELSE hdr

\* Variant of McDestroy: the Free and default branches return without
\* mc_list_unlock.
McDestroyKeepsLock(t, h) ==
    /\ th[t].pc = "idle"
    /\ h \in Handles
    /\ IF h = NULL
       THEN /\ th' = Returns(t, "destroy", h, 0, FALSE)
            /\ UNCHANGED <<registry, mutex, hdr, ring, hs>>
       ELSE /\ mutex = NoThread
            /\ hs' = [hs EXCEPT ![h] = "destroyed"]
            /\ IF hdr[h].cookie = MC_PARENT_COOKIE
               THEN LET te == InList(registry, h[1]) IN
                    /\ registry' = IF te THEN Remove(registry, h[1]) ELSE registry
                    /\ ring' = IF te THEN FreeRings({hdr[h].rings[MC_RECV_RING],
                                                     hdr[h].rings[MC_SEND_RING]})
                                     ELSE ring
                    /\ mutex' = t
                    /\ th' = [th EXCEPT ![t] =
                                [Idle EXCEPT !.pc = IF te THEN "destroy_children"
                                                          ELSE "destroy_free",
                                             !.op = "destroy", !.h = h, !.te = te]]
                    /\ hdr' = hdr
               ELSE IF hdr[h].cookie = MC_CHILD_COOKIE
               THEN /\ hdr' = mc_child_free(h)
                    /\ mutex' = t
                    /\ th' = [th EXCEPT ![t] = [Idle EXCEPT !.pc = "destroy_zero",
                                                  !.op = "destroy", !.h = h]]
                    /\ UNCHANGED <<registry, ring>>
               ELSE /\ th' = Returns(t, "destroy", h, 0, FALSE)
                    /\ mutex' = t
                    /\ UNCHANGED <<registry, hdr, ring>>
    /\ UNCHANGED <<mem, flags, sent, got, ncalls, clock>>

\* mc_destroy from its entry to the end of the first step under the mutex:
\* NULL returns at once; a Parent is looked for in the list and, when found,
\* unlinked and its rings freed; a Child has its cookie cleared by
\* mc_child_free; a Free cookie unlocks and returns.  The caller gives the
\* handle up by the call, so hs records it as destroyed from here on.
McDestroy(t, h) ==
    /\ th[t].pc = "idle"
    /\ h \in Handles
    /\ IF h = NULL
       THEN /\ th' = Returns(t, "destroy", h, 0, FALSE)
            /\ UNCHANGED <<registry, mutex, hdr, ring, hs>>
       ELSE /\ mutex = NoThread
            /\ hs' = [hs EXCEPT ![h] = "destroyed"]
            /\ IF hdr[h].cookie = MC_PARENT_COOKIE
               THEN LET te == InList(registry, h[1]) IN
                    /\ registry' = IF te THEN Remove(registry, h[1]) ELSE registry
                    /\ ring' = IF te THEN FreeRings({hdr[h].rings[MC_RECV_RING],
                                                     hdr[h].rings[MC_SEND_RING]})
                                     ELSE ring
                    /\ mutex' = t
                    /\ th' = [th EXCEPT ![t] =
                                [Idle EXCEPT !.pc = IF te THEN "destroy_children"
                                                          ELSE "destroy_free",
                                             !.op = "destroy", !.h = h, !.te = te]]
                    /\ hdr' = hdr
               ELSE IF hdr[h].cookie = MC_CHILD_COOKIE
               THEN /\ hdr' = mc_child_free(h)
                    /\ mutex' = t
                    /\ th' = [th EXCEPT ![t] = [Idle EXCEPT !.pc = "destroy_zero",
                                                  !.op = "destroy", !.h = h]]
                    /\ UNCHANGED <<registry, ring>>
               ELSE /\ th' = Returns(t, "destroy", h, 0, FALSE)
                    /\ UNCHANGED <<registry, mutex, hdr, ring>>
    /\ UNCHANGED <<mem, flags, sent, got, ncalls, clock>>

\* One turn of the loop over the children of a parent being destroyed.
DestroyChildren(t) ==
    /\ th[t].pc = "destroy_children"
    /\ hdr' = mc_child_free(Child(th[t].h[1], th[t].i))
    /\ th' = IF th[t].i + 1 < MC_MAX_CHILDREN
             THEN [th EXCEPT ![t].i = th[t].i + 1]
             ELSE [th EXCEPT ![t].pc = "destroy_free", ![t].i = 0]
    /\ UNCHANGED <<registry, mutex, mem, flags, ring, hs, sent, got, ncalls, clock>>

\* if (mc->flags & MC_MEM_ALLOCATED) free(mc); then unlock and return.
DestroyFree(t) ==
    /\ th[t].pc = "destroy_free"
    /\ mem' = IF HasBit(flags[th[t].h[1]], MC_MEM_ALLOCATED)
              THEN [mem EXCEPT ![th[t].h[1]] = "freed"]
              ELSE mem
    /\ mutex' = NoThread
    /\ th' = [th EXCEPT ![t] = [Idle EXCEPT !.pc = "ret", !.op = "destroy",
                                  !.h = th[t].h, !.te = th[t].te]]
    /\ UNCHANGED <<registry, flags, hdr, ring, hs, sent, got, ncalls, clock>>

\* memset(ch, 0, sizeof(mc_child_t)) of the Child branch, unlock, return.
DestroyZero(t) ==
    /\ th[t].pc = "destroy_zero"
    /\ hdr' = [hdr EXCEPT ![th[t].h] = ZeroHdr]
    /\ mutex' = NoThread
    /\ th' = Returns(t, "destroy", th[t].h, 0, FALSE)
    /\ UNCHANGED <<registry, mem, flags, ring, hs, sent, got, ncalls, clock>>

\* ---------------------------------------------------------------- mc_lookup
\* The whole call: a NULL name returns at once, any other takes the mutex,
\* walks the list and gives the mutex back before it returns.
McLookup(t, name) ==
    /\ th[t].pc = "idle"
    /\ name # NULL_STR => mutex = NoThread
    /\ th' = [th EXCEPT ![t] = [Idle EXCEPT !.pc = "ret", !.op = "lookup",
                                            !.name = name, !.ret = mc_lookup(name)]]
    /\ UNCHANGED Frame

\* ------------------------------------------------------- mc_send, mc_recv
\* The objects a caller passes to mc_send(h, objs, count): count objects
\* tagged with h and numbered on from those accepted from h so far, so that
\* no object is ever accepted twice.
Objs(h, count) == [k \in 1 .. count |-> <<h, sent[h] + k>>]
\* The objects accepted from h so far, in the order they were sent.
SentSeq(h) == [k \in 1 .. sent[h] |-> <<h, k>>]

\* Variant of SendFull: only a send that enqueued nothing counts as full.
SendFullOnNone(nb_objs, count) == IF nb_objs = 0 /\ count # 0 THEN 1 ELSE 0

\* if (nb_objs != count) atomic_fetch_add(&mc->hdr.send_full, 1);
SendFull(nb_objs, count) == IF nb_objs # count THEN 1 ELSE 0

\* cne_ring_enqueue_burst: as many of objs as there is room for.
EnqueueBurst(r, objs) == Min(Len(objs), ring[r].cap - Len(ring[r].q))
\* cne_ring_dequeue_burst: as many as asked for and present.
DequeueBurst(r, count) == Min(count, Len(ring[r].q))

\* Variant of ValidHandle: the cookie is not looked at.
ValidHandleAnyCookie(h) == h # NULL

\* mc && mc->hdr.cookie != MC_FREE_COOKIE
ValidHandle(h) == h # NULL /\ hdr[h].cookie # MC_FREE_COOKIE
\* The objs argument: an array of object pointers, or NULL.
NULL_OBJS == "null"
SOME_OBJS == "array"
ObjsArgs == {NULL_OBJS, SOME_OBJS}
\* Variant of InvalidParams: the objs pointer is not looked at.
InvalidParamsNoObjs(h, objs) == h = NULL \/ hdr[h].cookie = MC_FREE_COOKIE
\* if (!mc || !objs || mc->hdr.cookie == MC_FREE_COOKIE) "Invalid parameters"
InvalidParams(h, objs) ==
    h = NULL \/ objs = NULL_OBJS \/ hdr[h].cookie = MC_FREE_COOKIE
RingLive(r) == r # NULL_RING /\ ring[r].st = "live"

\* mc_send(mc, objs, count): the checks, then __send.
McSend(t, h, objs, count, budget) ==
    /\ th[t].pc = "idle"
    /\ h \in Handles
    /\ ncalls < budget
    /\ ncalls' = ncalls + 1
    /\ IF InvalidParams(h, objs) \/ count < 0
       THEN /\ th' = ReturnsArg(t, "send", h, objs, count, -1, <<>>, FALSE)
            /\ UNCHANGED <<hdr, ring, sent>>
       ELSE LET r == hdr[h].rings[MC_SEND_RING] IN
            IF RingLive(r)
            THEN LET sending == Objs(h, count)
                     nb_objs == EnqueueBurst(r, sending)
                 IN  /\ ring' = [ring EXCEPT ![r].q = @ \o SubSeq(sending, 1, nb_objs)]
                     /\ sent' = [sent EXCEPT ![h] = @ + nb_objs]
                     /\ hdr' = [hdr EXCEPT
                                 ![h].send_calls = @ + 1,
                                 ![h].send_cnt = @ + nb_objs,
                                 ![h].send_full = @ + SendFull(nb_objs, count)]
                     /\ th' = ReturnsArg(t, "send", h, objs, count, nb_objs, <<>>, FALSE)
            ELSE \* the ring is NULL or freed: whatever the enqueue does
                 \E nb_objs \in -1 .. count :
                     /\ hdr' = [hdr EXCEPT
                                 ![h].send_calls = @ + 1,
                                 ![h].send_cnt = IF nb_objs < 0 THEN @ ELSE @ + nb_objs,
                                 ![h].send_full = IF nb_objs < 0 THEN @
                                                  ELSE @ + SendFull(nb_objs, count)]
                     /\ th' = ReturnsArg(t, "send", h, objs, count, nb_objs, <<>>, TRUE)
                     /\ UNCHANGED <<ring, sent>>
    /\ UNCHANGED <<registry, mutex, mem, flags, hs, got, clock>>

\* Variant of McRecv: the objects are copied out and stay on the ring.
McRecvPeek(t, h, objs, count, budget) ==
    /\ th[t].pc = "idle"
    /\ h \in Handles
    /\ ncalls < budget
    /\ ncalls' = ncalls + 1
    /\ IF InvalidParams(h, objs) \/ count < 0
       THEN /\ th' = ReturnsArg(t, "recv", h, objs, count, -1, <<>>, FALSE)
            /\ UNCHANGED <<hdr, ring, got>>
       ELSE IF count = 0
       THEN /\ hdr' = [hdr EXCEPT ![h].recv_calls = @ + 1]
            /\ th' = ReturnsArg(t, "recv", h, objs, count, 0, <<>>, FALSE)
            /\ UNCHANGED <<ring, got>>
       ELSE LET r == hdr[h].rings[MC_RECV_RING] IN
            IF RingLive(r)
            THEN LET nb_objs == DequeueBurst(r, count) IN
                 /\ ring' = ring
                 /\ got' = [got EXCEPT ![h] = @ \o SubSeq(ring[r].q, 1, nb_objs)]
                 /\ hdr' = [hdr EXCEPT
                             ![h].recv_calls = @ + 1,
                             ![h].recv_empty = IF nb_objs = 0 THEN @ + 1 ELSE @,
                             ![h].recv_cnt = IF nb_objs = 0 THEN @ ELSE @ + nb_objs]
                 /\ th' = ReturnsArg(t, "recv", h, objs, count, nb_objs,
                                     SubSeq(ring[r].q, 1, nb_objs), FALSE)
            ELSE \* the ring is NULL or freed: whatever the dequeue does
                 \E nb_objs \in 0 .. count :
                     /\ hdr' = [hdr EXCEPT
                                 ![h].recv_calls = @ + 1,
                                 ![h].recv_empty = IF nb_objs = 0 THEN @ + 1 ELSE @,
                                 ![h].recv_cnt = IF nb_objs = 0 THEN @ ELSE @ + nb_objs]
                     /\ th' = ReturnsArg(t, "recv", h, objs, count, nb_objs, <<>>, TRUE)
                     /\ UNCHANGED <<ring, got>>
    /\ UNCHANGED <<registry, mutex, mem, flags, hs, sent, clock>>

\* mc_recv(mc, objs, count, 0): the checks, then __recv with msec == 0 (one
\* cne_ring_dequeue_burst).
McRecv(t, h, objs, count, budget) ==
    /\ th[t].pc = "idle"
    /\ h \in Handles
    /\ ncalls < budget
    /\ ncalls' = ncalls + 1
    /\ IF InvalidParams(h, objs) \/ count < 0
       THEN /\ th' = ReturnsArg(t, "recv", h, objs, count, -1, <<>>, FALSE)
            /\ UNCHANGED <<hdr, ring, got>>
       ELSE IF count = 0
       THEN /\ hdr' = [hdr EXCEPT ![h].recv_calls = @ + 1]
            /\ th' = ReturnsArg(t, "recv", h, objs, count, 0, <<>>, FALSE)
            /\ UNCHANGED <<ring, got>>
       ELSE LET r == hdr[h].rings[MC_RECV_RING] IN
            IF RingLive(r)
            THEN LET nb_objs == DequeueBurst(r, count) IN
                 /\ ring' = [ring EXCEPT ![r].q = SubSeq(@, nb_objs + 1, Len(@))]
                 /\ got' = [got EXCEPT ![h] = @ \o SubSeq(ring[r].q, 1, nb_objs)]
                 /\ hdr' = [hdr EXCEPT
                             ![h].recv_calls = @ + 1,
                             ![h].recv_empty = IF nb_objs = 0 THEN @ + 1 ELSE @,
                             ![h].recv_cnt = IF nb_objs = 0 THEN @ ELSE @ + nb_objs]
                 /\ th' = ReturnsArg(t, "recv", h, objs, count, nb_objs,
                                     SubSeq(ring[r].q, 1, nb_objs), FALSE)
            ELSE \* the ring is NULL or freed: whatever the dequeue does
                 \E nb_objs \in 0 .. count :
                     /\ hdr' = [hdr EXCEPT
                                 ![h].recv_calls = @ + 1,
                                 ![h].recv_empty = IF nb_objs = 0 THEN @ + 1 ELSE @,
                                 ![h].recv_cnt = IF nb_objs = 0 THEN @ ELSE @ + nb_objs]
                     /\ th' = ReturnsArg(t, "recv", h, objs, count, nb_objs, <<>>, TRUE)
                     /\ UNCHANGED <<ring, got>>
    /\ UNCHANGED <<registry, mutex, mem, flags, hs, sent, clock>>

\* ------------------------------------------------ the data path, by steps
\* uint64_t arithmetic of begin, stop and msec.
ClockModulus == 2 ^ ClockBits
\* cne_get_timer_hz(): ticks of the time stamp counter per second.
cne_get_timer_hz == 2000
\* The msec arguments: none, short ones, and the largest uint64_t.
MsecArgs == {0, 1, 2, ClockModulus - 1}

\* stop = begin + ((cne_get_timer_hz() / 1000) * msec), in uint64_t.
Stop(begin, msec) ==
    (begin + (((cne_get_timer_hz \div 1000) * msec) % ClockModulus)) % ClockModulus

\* Time passes.
Tick ==
    /\ clock < MaxClock
    /\ clock' = clock + 1
    /\ UNCHANGED <<registry, mutex, mem, flags, hdr, ring, th, hs, sent, got, ncalls>>

\* A call of mc_send or mc_recv as it is entered.
Call(op, h, objs, count, msec) ==
    [Idle EXCEPT !.op = op, !.h = h, !.objs = objs, !.count = count,
                 !.msec = msec, !.start = clock,
                 !.was = IF h = NULL THEN ZeroHdr ELSE hdr[h]]

\* mc_send: the checks; __send: atomic_fetch_add(&mc->hdr.send_calls, 1).
SendEnter(t, h, objs, count, budget) ==
    /\ th[t].pc = "idle"
    /\ h \in Handles
    /\ ncalls < budget
    /\ ncalls' = ncalls + 1
    /\ IF InvalidParams(h, objs) \/ count < 0
       THEN /\ th' = [th EXCEPT ![t] = [Call("send", h, objs, count, 0) EXCEPT
                                           !.pc = "ret", !.ret = -1]]
            /\ hdr' = hdr
       ELSE /\ hdr' = [hdr EXCEPT ![h].send_calls = @ + 1]
            /\ th' = [th EXCEPT ![t] = [Call("send", h, objs, count, 0) EXCEPT
                                           !.pc = "send_enq"]]
    /\ UNCHANGED <<registry, mutex, mem, flags, ring, hs, sent, got, clock>>

\* __send: nb_objs = cne_ring_enqueue_burst(r, objs, count, NULL), and the
\* return of -1 when it is negative.
SendEnqueue(t) ==
    /\ th[t].pc = "send_enq"
    /\ LET h == th[t].h
           count == th[t].count
           r == hdr[h].rings[MC_SEND_RING]
       IN  IF RingLive(r)
           THEN LET sending == Objs(h, count)
                    nb_objs == EnqueueBurst(r, sending)
                IN  /\ ring' = [ring EXCEPT ![r].q = @ \o SubSeq(sending, 1, nb_objs)]
                    /\ sent' = [sent EXCEPT ![h] = @ + nb_objs]
                    /\ th' = [th EXCEPT ![t].pc = "send_cnt", ![t].nb_objs = nb_objs]
           ELSE \* the ring is NULL or freed: whatever the enqueue does
                \E nb_objs \in -1 .. count :
                    /\ th' = [th EXCEPT ![t].pc = IF nb_objs < 0 THEN "ret" ELSE "send_cnt",
                                        ![t].nb_objs = nb_objs,
                                        ![t].ret = IF nb_objs < 0 THEN -1 ELSE 0,
                                        ![t].ub = TRUE]
                    /\ UNCHANGED <<ring, sent>>
    /\ UNCHANGED <<registry, mutex, mem, flags, hdr, hs, got, ncalls, clock>>

\* Variant of SendCnt: the counter is updated under mc_list_lock.
SendCntLocked(t) ==
    /\ th[t].pc = "send_cnt"
    /\ mutex = NoThread
    /\ hdr' = [hdr EXCEPT ![th[t].h].send_cnt = @ + th[t].nb_objs]
    /\ th' = [th EXCEPT ![t].pc = "send_full"]
    /\ UNCHANGED <<registry, mutex, mem, flags, ring, hs, sent, got, ncalls, clock>>

\* Variant of SendCntAdd: the count offered is added, not the count taken.
SendCntAddOffered(c, nb_objs, count) == [c EXCEPT !.send_cnt = @ + count]

\* __send: atomic_fetch_add(&mc->hdr.send_cnt, nb_objs).
SendCntAdd(c, nb_objs, count) == [c EXCEPT !.send_cnt = @ + nb_objs]

SendCnt(t) ==
    /\ th[t].pc = "send_cnt"
    /\ hdr' = [hdr EXCEPT ![th[t].h] = SendCntAdd(@, th[t].nb_objs, th[t].count)]
    /\ th' = [th EXCEPT ![t].pc = "send_full"]
    /\ UNCHANGED <<registry, mutex, mem, flags, ring, hs, sent, got, ncalls, clock>>

\* __send: if (nb_objs != count) atomic_fetch_add(&mc->hdr.send_full, 1);
\* return nb_objs.
SendDone(t) ==
    /\ th[t].pc = "send_full"
    /\ hdr' = [hdr EXCEPT ![th[t].h].send_full =
                              @ + SendFull(th[t].nb_objs, th[t].count)]
    /\ th' = [th EXCEPT ![t].pc = "ret", ![t].ret = th[t].nb_objs]
    /\ UNCHANGED <<registry, mutex, mem, flags, ring, hs, sent, got, ncalls, clock>>

\* Variant of RecvPath: a count of 0 is not told apart.
RecvPathAnyCount(count, msec) == IF msec # 0 THEN "recv_loop" ELSE "recv_once"

\* __recv after the fetch-add of recv_calls: if (count == 0) return 0;
\* if (msec) the polling loop, else one dequeue.
RecvPath(count, msec) ==
    IF count = 0 THEN "ret" ELSE IF msec # 0 THEN "recv_loop" ELSE "recv_once"

\* mc_recv: the checks; __recv: atomic_fetch_add(&mc->hdr.recv_calls, 1),
\* the return of 0 when count == 0, and with msec != 0 the first reading of
\* the clock and the deadline.  A call is entered only if the clock, which
\* stops at MaxClock, can reach its deadline.
RecvEnter(t, h, objs, count, msec, budget) ==
    /\ th[t].pc = "idle"
    /\ h \in Handles
    /\ ncalls < budget
    /\ msec # 0 => Stop(clock, msec) <= MaxClock
    /\ ncalls' = ncalls + 1
    /\ IF InvalidParams(h, objs) \/ count < 0
       THEN /\ th' = [th EXCEPT ![t] = [Call("recv", h, objs, count, msec) EXCEPT
                                           !.pc = "ret", !.ret = -1]]
            /\ hdr' = hdr
       ELSE /\ hdr' = [hdr EXCEPT ![h].recv_calls = @ + 1]
            /\ th' = [th EXCEPT ![t] =
                        IF RecvPath(count, msec) = "recv_loop"
                        THEN [Call("recv", h, objs, count, msec) EXCEPT
                                !.pc = "recv_loop", !.begin = clock,
                                !.stop = Stop(clock, msec)]
                        ELSE [Call("recv", h, objs, count, msec) EXCEPT
                                !.pc = RecvPath(count, msec), !.ret = 0]]
    /\ UNCHANGED <<registry, mutex, mem, flags, ring, hs, sent, got, clock>>

\* nb_objs = cne_ring_dequeue_burst(r, objs, count, NULL); the call goes on
\* at empty when nothing was taken and at some otherwise.
Dequeue(t, empty, some) ==
    LET h == th[t].h
        count == th[t].count
        r == hdr[h].rings[MC_RECV_RING]
    IN  IF RingLive(r)
        THEN LET nb_objs == DequeueBurst(r, count) IN
             /\ ring' = [ring EXCEPT ![r].q = SubSeq(@, nb_objs + 1, Len(@))]
             /\ got' = [got EXCEPT ![h] = @ \o SubSeq(ring[r].q, 1, nb_objs)]
             /\ th' = [th EXCEPT ![t].pc = IF nb_objs = 0 THEN empty ELSE some,
                                 ![t].nb_objs = nb_objs,
                                 ![t].out = SubSeq(ring[r].q, 1, nb_objs),
                                 ![t].tries = Min(@ + 1, MaxTries)]
        ELSE \* the ring is NULL or freed: whatever the dequeue does
             \E nb_objs \in 0 .. count :
                 /\ th' = [th EXCEPT ![t].pc = IF nb_objs = 0 THEN empty ELSE some,
                                     ![t].nb_objs = nb_objs,
                                     ![t].tries = Min(@ + 1, MaxTries),
                                     ![t].ub = TRUE]
                 /\ UNCHANGED <<ring, got>>

\* Variant of Polling: the loop goes on until an object arrives.
PollingForData(a) == a.nb_objs = 0

\* The loop condition of __recv: nb_objs == 0 && begin < stop.
Polling(a) == a.nb_objs = 0 /\ a.begin < a.stop

\* __recv, msec != 0: while (nb_objs == 0 && begin < stop) one dequeue.
RecvLoop(t) ==
    /\ th[t].pc = "recv_loop"
    /\ IF Polling(th[t])
       THEN Dequeue(t, "recv_clock", "recv_loop")
       ELSE /\ th' = [th EXCEPT ![t].pc = "recv_count"]
            /\ UNCHANGED <<ring, got>>
    /\ UNCHANGED <<registry, mutex, mem, flags, hdr, hs, sent, ncalls, clock>>

\* __recv, msec != 0, after a dequeue that took nothing:
\* begin = cne_rdtsc_precise(); cne_pause().
RecvClock(t) ==
    /\ th[t].pc = "recv_clock"
    /\ th' = [th EXCEPT ![t].pc = "recv_loop", ![t].begin = clock]
    /\ UNCHANGED Frame

\* __recv, msec == 0: one dequeue.
RecvOnce(t) ==
    /\ th[t].pc = "recv_once"
    /\ Dequeue(t, "recv_count", "recv_count")
    /\ UNCHANGED <<registry, mutex, mem, flags, hdr, hs, sent, ncalls, clock>>

\* Variant of RecvCounted: recv_empty is counted on every call.
RecvCountedAlways(c, nb_objs) ==
    [c EXCEPT !.recv_empty = @ + 1, !.recv_cnt = @ + nb_objs]

\* if (nb_objs == 0) atomic_fetch_add(&mc->hdr.recv_empty, 1);
\* else atomic_fetch_add(&mc->hdr.recv_cnt, nb_objs);
RecvCounted(c, nb_objs) ==
    IF nb_objs = 0 THEN [c EXCEPT !.recv_empty = @ + 1]
    ELSE [c EXCEPT !.recv_cnt = @ + nb_objs]

\* __recv: the counter of the outcome; return nb_objs.
RecvCount(t) ==
    /\ th[t].pc = "recv_count"
    /\ hdr' = [hdr EXCEPT ![th[t].h] = RecvCounted(@, th[t].nb_objs)]
    /\ th' = [th EXCEPT ![t].pc = "ret", ![t].ret = th[t].nb_objs]
    /\ UNCHANGED <<registry, mutex, mem, flags, ring, hs, sent, got, ncalls, clock>>

\* ------------------------------------------------------------ introspection
cne_ring_count(r) == Len(ring[r].q)
cne_ring_free_count(r) == ring[r].cap - Len(ring[r].q)
cne_ring_get_capacity(r) == ring[r].cap

\* What a read of memory that was freed or never set up can yield.
Garbage == {-1, 0, 1}

mc_name(h) == IF ValidHandle(h) THEN hdr[h].name ELSE NULL_STR

\* Variant of mc_recv_count: it reads the send ring.
mc_recv_count_send(h) ==
    IF ~ValidHandle(h) \/ hdr[h].rings[MC_SEND_RING] = NULL_RING THEN 0
    ELSE cne_ring_count(hdr[h].rings[MC_SEND_RING])

mc_recv_count(h) ==
    IF ~ValidHandle(h) \/ hdr[h].rings[MC_RECV_RING] = NULL_RING THEN 0
    ELSE cne_ring_count(hdr[h].rings[MC_RECV_RING])

mc_send_count(h) ==
    IF ~ValidHandle(h) \/ hdr[h].rings[MC_SEND_RING] = NULL_RING THEN 0
    ELSE cne_ring_count(hdr[h].rings[MC_SEND_RING])

\* mc_size: the return value, and <<*recv_free_cnt, *send_free_cnt>>.
mc_size(h) ==
    IF ValidHandle(h) THEN cne_ring_get_capacity(hdr[h].rings[MC_RECV_RING]) ELSE -1
mc_size_free(h) ==
    IF ValidHandle(h)
    THEN <<cne_ring_free_count(hdr[h].rings[MC_RECV_RING]),
           cne_ring_free_count(hdr[h].rings[MC_SEND_RING])>>
    ELSE <<>>

\* mc_info with info != NULL: the return value, and *info.
mc_info(h) == IF ValidHandle(h) THEN 0 ELSE -1
mc_info_out(h) ==
    IF ValidHandle(h)
    THEN [recv_ring |-> hdr[h].rings[MC_RECV_RING],
          send_ring |-> hdr[h].rings[MC_SEND_RING],
          send_calls |-> hdr[h].send_calls, send_cnt |-> hdr[h].send_cnt,
          send_full |-> hdr[h].send_full, recv_calls |-> hdr[h].recv_calls,
          recv_cnt |-> hdr[h].recv_cnt, recv_empty |-> hdr[h].recv_empty]
    ELSE <<>>


\* The counters in the order in which mc_info loads them.
InfoFields ==
    <<"send_calls", "send_cnt", "send_full", "recv_calls", "recv_cnt", "recv_empty">>

\* mc_info with info != NULL, by steps: the check, and the two ring pointers.
InfoEnter(t, h) ==
    /\ th[t].pc = "idle"
    /\ h \in Handles
    /\ th' = IF ValidHandle(h)
             THEN [th EXCEPT ![t] =
                     [Idle EXCEPT !.pc = "info_load", !.op = "info", !.h = h, !.i = 1,
                                  !.out = [recv_ring |-> hdr[h].rings[MC_RECV_RING],
                                           send_ring |-> hdr[h].rings[MC_SEND_RING],
                                           send_calls |-> 0, send_cnt |-> 0,
                                           send_full |-> 0, recv_calls |-> 0,
                                           recv_cnt |-> 0, recv_empty |-> 0]]]
             ELSE ReturnsOut(t, "info", h, -1, <<>>, FALSE)
    /\ UNCHANGED Frame

\* mc_info: one atomic_load into *info; after the last one, return 0.
InfoLoad(t) ==
    /\ th[t].pc = "info_load"
    /\ LET f == InfoFields[th[t].i]
           last == th[t].i = Len(InfoFields)
       IN  th' = [th EXCEPT ![t].out = [@ EXCEPT ![f] = hdr[th[t].h][f]],
                            ![t].i = IF last THEN 0 ELSE @ + 1,
                            ![t].pc = IF last THEN "ret" ELSE @,
                            ![t].ret = 0]
    /\ UNCHANGED Frame

McName(t, h) ==
    /\ th[t].pc = "idle"
    /\ h \in Handles
    /\ th' = Returns(t, "name", h, mc_name(h), FALSE)
    /\ UNCHANGED Frame

McInfo(t, h) ==
    /\ th[t].pc = "idle"
    /\ h \in Handles
    /\ th' = ReturnsOut(t, "info", h, mc_info(h), mc_info_out(h), FALSE)
    /\ UNCHANGED Frame

McSize(t, h) ==
    /\ th[t].pc = "idle"
    /\ h \in Handles
    /\ IF ValidHandle(h) /\ ~(RingLive(hdr[h].rings[MC_RECV_RING])
                              /\ RingLive(hdr[h].rings[MC_SEND_RING]))
       THEN \E v \in Garbage : th' = ReturnsOut(t, "size", h, v, <<v, v>>, TRUE)
       ELSE th' = ReturnsOut(t, "size", h, mc_size(h), mc_size_free(h), FALSE)
    /\ UNCHANGED Frame

McRecvCount(t, h) ==
    /\ th[t].pc = "idle"
    /\ h \in Handles
    /\ IF ValidHandle(h) /\ hdr[h].rings[MC_RECV_RING] # NULL_RING
          /\ ~RingLive(hdr[h].rings[MC_RECV_RING])
       THEN \E v \in Garbage : th' = Returns(t, "recv_count", h, v, TRUE)
       ELSE th' = Returns(t, "recv_count", h, mc_recv_count(h), FALSE)
    /\ UNCHANGED Frame

McSendCount(t, h) ==
    /\ th[t].pc = "idle"
    /\ h \in Handles
    /\ IF ValidHandle(h) /\ hdr[h].rings[MC_SEND_RING] # NULL_RING
          /\ ~RingLive(hdr[h].rings[MC_SEND_RING])
       THEN \E v \in Garbage : th' = Returns(t, "send_count", h, v, TRUE)
       ELSE th' = Returns(t, "send_count", h, mc_send_count(h), FALSE)
    /\ UNCHANGED Frame

\* mc_dump: mc_list_lock; what it prints is read in the steps that follow.
McDump(t, h) ==
    /\ th[t].pc = "idle"
    /\ h \in Handles
    /\ mutex = NoThread
    /\ mutex' = t
    /\ th' = [th EXCEPT ![t] = [Idle EXCEPT !.pc = "dump", !.op = "dump", !.h = h]]
    /\ UNCHANGED <<registry, mem, flags, hdr, ring, hs, sent, got, ncalls, clock>>

\* mc_dump: the header and the rings are read and printed; mc_list_unlock.
DumpDone(t) ==
    /\ th[t].pc = "dump"
    /\ mutex' = NoThread
    /\ th' = Returns(t, "dump", th[t].h, 0,
                     /\ ValidHandle(th[t].h)
                     /\ ~(RingLive(hdr[th[t].h].rings[MC_RECV_RING])
                          /\ RingLive(hdr[th[t].h].rings[MC_SEND_RING])))
    /\ UNCHANGED <<registry, mem, flags, hdr, ring, hs, sent, got, ncalls, clock>>

\* mc_list: mc_list_lock, then the walk over the list starts.
McList(t) ==
    /\ th[t].pc = "idle"
    /\ mutex = NoThread
    /\ mutex' = t
    /\ th' = [th EXCEPT ![t] = [Idle EXCEPT !.pc = "list", !.op = "list"]]
    /\ UNCHANGED <<registry, mem, flags, hdr, ring, hs, sent, got, ncalls, clock>>

\* Variant of ListDump: the mc_list_unlock of mc_dump gives the mutex up
\* although mc_list still holds it.
ListDumpReleases(t) ==
    /\ th[t].pc = "list"
    /\ mutex = t
    /\ IF th[t].i < Len(registry)
       THEN /\ th' = [th EXCEPT ![t].i = @ + 1]
            /\ mutex' = NoThread
       ELSE /\ th' = Returns(t, "list", NULL, 0, FALSE)
            /\ mutex' = NoThread
    /\ UNCHANGED <<registry, mem, flags, hdr, ring, hs, sent, got, ncalls, clock>>

\* mc_list: TAILQ_FOREACH mc_dump(te->data), which locks the recursive mutex
\* its caller owns and unlocks it again; after the last entry
\* mc_list_unlock.
ListDump(t) ==
    /\ th[t].pc = "list"
    /\ mutex = t
    /\ IF th[t].i < Len(registry)
       THEN /\ th' = [th EXCEPT ![t].i = @ + 1]
            /\ mutex' = mutex
       ELSE /\ th' = Returns(t, "list", NULL, 0, FALSE)
            /\ mutex' = NoThread
    /\ UNCHANGED <<registry, mem, flags, hdr, ring, hs, sent, got, ncalls, clock>>

\* The caller takes the returned value; the thread is between calls again.
Return(t) ==
    /\ th[t].pc = "ret"
    /\ th' = [th EXCEPT ![t] = Idle]
    /\ UNCHANGED Frame

\* ----------------------------------------------------------- specifications
\* The threads that call the library, and the blocks calloc hands out.
Callers == {"t1", "t2"}
\* What the callers of mc_create pass: the count, and the flags with and
\* without the bit that forbids an attach.
RingCount == 2 ^ CountLog2
CreateFlags == {{}, {MC_NO_CHILD_CREATE}}
OneCaller == {"t1"}
OneBlock == {1}
AnyPtr == Ptrs \cup {NULL}
\* The pointers into the one block of OneBlock.
OnePtrs == {p \in Ptrs : p[1] \in OneBlock}

\* Two threads; construction, attach, destroy and lookup on one parent block.
Next ==
    \E t \in Callers :
        \/ \E name \in Names, f \in CreateFlags : McCreate(t, name, 0, RingCount, f)
        \/ InitCreate(t, OneBlock)
        \/ InitInsert(t)
        \/ ChildAlloc(t)
        \/ AttachFill(t)
        \/ \E h \in AnyPtr : McDestroy(t, h)
        \/ DestroyChildren(t)
        \/ DestroyFree(t)
        \/ DestroyZero(t)
        \/ \E name \in Names \cup {NULL_STR} : McLookup(t, name)
        \/ Return(t)

Spec == Init /\ [][Next]_vars

\* Two threads and two parent blocks; construction, attach, lookup and the
\* destroy of parents.
NextTwo ==
    \E t \in Callers :
        \/ \E name \in Names, f \in CreateFlags : McCreate(t, name, 0, RingCount, f)
        \/ InitCreate(t, Blocks)
        \/ InitInsert(t)
        \/ ChildAlloc(t)
        \/ AttachFill(t)
        \/ \E b \in Blocks : McDestroy(t, Parent(b))
        \/ DestroyChildren(t)
        \/ DestroyFree(t)
        \/ \E name \in Names : McLookup(t, name)
        \/ Return(t)

SpecTwo == Init /\ [][NextTwo]_vars

\* Three threads that only call mc_init with one name.
NextAttach ==
    \E t \in Threads :
        \/ McCreate(t, <<"a">>, 0, RingCount, {})
        \/ InitCreate(t, OneBlock)
        \/ InitInsert(t)
        \/ ChildAlloc(t)
        \/ AttachFill(t)
        \/ Return(t)

SpecAttach == Init /\ [][NextAttach]_vars

\* One caller; construction, attach and the data path.
NextData ==
    \E t \in OneCaller :
        \/ McCreate(t, <<"a">>, 0, RingCount, {})
        \/ InitCreate(t, OneBlock)
        \/ InitInsert(t)
        \/ ChildAlloc(t)
        \/ AttachFill(t)
        \/ \E h \in OnePtrs, count \in 0 .. MaxBurst : McSend(t, h, SOME_OBJS, count, MaxDataCalls)
        \/ \E h \in OnePtrs, count \in 0 .. MaxBurst : McRecv(t, h, SOME_OBJS, count, MaxDataCalls)
        \/ Return(t)

SpecData == Init /\ [][NextData]_vars

\* One caller; every operation, on live and on destroyed handles.
NextUse ==
    \E t \in OneCaller :
        \/ McCreate(t, <<"a">>, 0, RingCount, {})
        \/ InitCreate(t, OneBlock)
        \/ InitInsert(t)
        \/ ChildAlloc(t)
        \/ AttachFill(t)
        \/ \E h \in AnyPtr : McDestroy(t, h)
        \/ DestroyChildren(t)
        \/ DestroyFree(t)
        \/ DestroyZero(t)
        \/ McLookup(t, <<"a">>)
        \/ \E h \in AnyPtr, objs \in ObjsArgs, count \in {-1, 1} :
               McSend(t, h, objs, count, MaxUseCalls)
        \/ \E h \in AnyPtr, objs \in ObjsArgs, count \in {-1, 1} :
               McRecv(t, h, objs, count, MaxUseCalls)
        \/ \E h \in AnyPtr : McName(t, h)
        \/ \E h \in AnyPtr : McInfo(t, h)
        \/ \E h \in AnyPtr : McSize(t, h)
        \/ \E h \in AnyPtr : McRecvCount(t, h)
        \/ \E h \in AnyPtr : McSendCount(t, h)
        \/ Return(t)

SpecUse == Init /\ [][NextUse]_vars

\* The handles of the polling and racing callers: a parent and its first child.
PairPtrs == {Parent(1), Child(1, 0)}

\* Receiver t1 and sender t2 on one parent and its children, with the
\* clock; mc_send and mc_recv by steps, mc_recv with and without a timeout.
NextPoll ==
    \/ \E t \in OneCaller :
           \/ McCreate(t, <<"a">>, 0, RingCount, {})
           \/ InitCreate(t, OneBlock)
           \/ InitInsert(t)
           \/ ChildAlloc(t)
           \/ AttachFill(t)
           \/ \E h \in PairPtrs, count \in 0 .. 1, msec \in MsecArgs :
                  RecvEnter(t, h, SOME_OBJS, count, msec, MaxPollCalls)
           \/ RecvLoop(t)
           \/ RecvClock(t)
           \/ RecvOnce(t)
           \/ RecvCount(t)
    \/ \E t \in Callers \ OneCaller :
           \/ \E h \in PairPtrs : SendEnter(t, h, SOME_OBJS, 1, MaxPollCalls)
           \/ SendEnqueue(t)
           \/ SendCnt(t)
           \/ SendDone(t)
    \/ \E t \in Callers : Return(t)
    \/ Tick

SpecPoll == Init /\ [][NextPoll]_vars

\* t1 builds, attaches, looks up, dumps, lists and destroys; t2 sends,
\* receives and reads the counters and sizes.
NextLock ==
    \/ \E t \in OneCaller :
           \/ McCreate(t, <<"a">>, 0, RingCount, {})
           \/ InitCreate(t, OneBlock)
           \/ InitInsert(t)
           \/ ChildAlloc(t)
           \/ AttachFill(t)
           \/ \E h \in PairPtrs : McDestroy(t, h)
           \/ DestroyChildren(t)
           \/ DestroyFree(t)
           \/ DestroyZero(t)
           \/ McLookup(t, <<"a">>)
           \/ \E h \in PairPtrs : McDump(t, h)
           \/ DumpDone(t)
           \/ McList(t)
           \/ ListDump(t)
    \/ \E t \in Callers \ OneCaller :
           \/ \E h \in PairPtrs : SendEnter(t, h, SOME_OBJS, 1, MaxLockCalls)
           \/ SendEnqueue(t)
           \/ SendCnt(t)
           \/ SendDone(t)
           \/ \E h \in PairPtrs : RecvEnter(t, h, SOME_OBJS, 1, 0, MaxLockCalls)
           \/ RecvOnce(t)
           \/ RecvCount(t)
           \/ \E h \in PairPtrs :
                  \/ McSize(t, h)
                  \/ McInfo(t, h)
                  \/ McRecvCount(t, h)
                  \/ McSendCount(t, h)
    \/ \E t \in Callers : Return(t)

SpecLock == Init /\ [][NextLock]_vars

\* t1 builds a parent and attaches to it; t1 and t2 then send and receive
\* on the same handles, by steps.
NextRace ==
    \/ \E t \in OneCaller :
           \/ McCreate(t, <<"a">>, 0, RingCount, {})
           \/ InitCreate(t, OneBlock)
           \/ InitInsert(t)
           \/ ChildAlloc(t)
           \/ AttachFill(t)
    \/ \E t \in Callers :
           \/ \E h \in PairPtrs, count \in 1 .. MaxBurst :
                  SendEnter(t, h, SOME_OBJS, count, MaxRaceCalls)
           \/ SendEnqueue(t)
           \/ SendCnt(t)
           \/ SendDone(t)
           \/ \E h \in PairPtrs : RecvEnter(t, h, SOME_OBJS, 1, 0, MaxRaceCalls)
           \/ RecvOnce(t)
           \/ RecvCount(t)
           \/ Return(t)

SpecRace == Init /\ [][NextRace]_vars

\* t1 builds a parent, attaches to it, sends and receives; t2 calls mc_info
\* on the same handles; all by steps.
NextInfo ==
    \/ \E t \in OneCaller :
           \/ McCreate(t, <<"a">>, 0, RingCount, {})
           \/ InitCreate(t, OneBlock)
           \/ InitInsert(t)
           \/ ChildAlloc(t)
           \/ AttachFill(t)
           \/ \E h \in PairPtrs, count \in 1 .. MaxBurst :
                  SendEnter(t, h, SOME_OBJS, count, MaxRaceCalls)
           \/ SendEnqueue(t)
           \/ SendCnt(t)
           \/ SendDone(t)
           \/ \E h \in PairPtrs : RecvEnter(t, h, SOME_OBJS, 1, 0, MaxRaceCalls)
           \/ RecvOnce(t)
           \/ RecvCount(t)
    \/ \E t \in Callers \ OneCaller :
           \/ \E h \in PairPtrs : InfoEnter(t, h)
           \/ InfoLoad(t)
    \/ \E t \in Callers : Return(t)

SpecInfo == Init /\ [][NextInfo]_vars

\* Receiver t1 on the parent and sender t2 on its first child, with the
\* clock; every mc_recv asks for one object.
NextWait ==
    \/ \E t \in OneCaller :
           \/ McCreate(t, <<"a">>, 0, RingCount, {})
           \/ InitCreate(t, OneBlock)
           \/ InitInsert(t)
           \/ ChildAlloc(t)
           \/ AttachFill(t)
           \/ \E msec \in MsecArgs :
                  RecvEnter(t, Parent(1), SOME_OBJS, 1, msec, MaxPollCalls)
           \/ RecvLoop(t)
           \/ RecvClock(t)
           \/ RecvOnce(t)
           \/ RecvCount(t)
    \/ \E t \in Callers \ OneCaller :
           \/ SendEnter(t, Child(1, 0), SOME_OBJS, 1, MaxPollCalls)
           \/ SendEnqueue(t)
           \/ SendCnt(t)
           \/ SendDone(t)
    \/ \E t \in Callers : Return(t)
    \/ Tick

\* The receiving thread keeps running and the clock keeps advancing.
SpecWait ==
    /\ Init /\ [][NextWait]_vars
    /\ WF_vars(Tick)
    /\ \A t \in OneCaller :
           /\ WF_vars(RecvLoop(t)) /\ WF_vars(RecvClock(t))
           /\ WF_vars(RecvOnce(t)) /\ WF_vars(RecvCount(t))

\* One thread and one name; mc_init and mc_create with valid and invalid
\* arguments, with and without memory of the caller's (block 2; calloc
\* hands out block 1), attach, lookup, the destroy of parents.
CallerMem == Parent(2)
OneName == {<<"a">>}
EsizeArgs == {0, 3, 4, RING_DFLT_ELEM_SZ}
\* No entries, not a power of two, the callers' usual count, above the maximum.
CountArgs == {0, 3, RingCount, 2 * RingCount}
FlagArgs  == {{}, {MC_NO_CHILD_CREATE}, {RING_F_SP_ENQ, RING_F_SC_DEQ},
              {MC_MEM_ALLOCATED_BIT}, {MC_NO_CHILD_CREATE, MC_MEM_ALLOCATED_BIT}}
\* The sizes a caller states for its memory: none, one byte short, enough.
SizeArgs(esize, count) ==
    LET sz == mc_get_total_memsize(esize, count) IN
    IF sz > 0 THEN {0, sz - 1, sz} ELSE {0, 1}

NextArgs ==
    \E t \in OneCaller :
        \/ \E name \in OneName, esize \in EsizeArgs, count \in CountArgs, f \in FlagArgs :
             McCreate(t, name, esize, count, f)
        \/ \E name \in OneName, esize \in EsizeArgs, count \in CountArgs, f \in FlagArgs :
             \E size \in SizeArgs(esize, count) :
                McInit(t, CallerMem, size, name, esize, count, f)
        \/ InitCreate(t, OneBlock)
        \/ InitInsert(t)
        \/ ChildAlloc(t)
        \/ AttachFill(t)
        \/ \E b \in Blocks : McDestroy(t, Parent(b))
        \/ DestroyChildren(t)
        \/ DestroyFree(t)
        \/ \E name \in OneName \cup {NULL_STR} : McLookup(t, name)
        \/ Return(t)

SpecArgs == Init /\ [][NextArgs]_vars

\* One caller whose mc_init can fail while it builds a parent: a ring is
\* not created, the list entry is not allocated or the mutex is not taken.
NextFail ==
    \E t \in OneCaller :
        \/ McCreate(t, <<"a">>, 0, RingCount, {})
        \/ McInit(t, CallerMem, mc_get_total_memsize(0, RingCount), <<"a">>, 0, RingCount, {})
        \/ InitCreate(t, OneBlock)
        \/ \E made \in {0, 1} : InitCreateFail(t, OneBlock, made)
        \/ InitInsert(t)
        \/ InitInsertFail(t)
        \/ ChildAlloc(t)
        \/ AttachFill(t)
        \/ \E b \in Blocks : McDestroy(t, Parent(b))
        \/ DestroyChildren(t)
        \/ DestroyFree(t)
        \/ McLookup(t, <<"a">>)
        \/ Return(t)

SpecFail == Init /\ [][NextFail]_vars

\* The client's send loop of the test, on the first child; the server
\* receives on the parent.  The loop's scnt is the count field of the
\* sender's record between its calls, and k is LoopObjects - scnt.
LoopObjects == RingCount + 1
LoopHandle == Child(1, 0)
LoopCalls == MaxLoopSpins + 2 * LoopObjects

\* k = 0; scnt = cnt;
LoopBegin(t) ==
    /\ th[t].pc = "idle" /\ th[t].count = 0
    /\ hs[LoopHandle] = "live" /\ sent[LoopHandle] = 0
    /\ th' = [th EXCEPT ![t].count = LoopObjects]
    /\ UNCHANGED Frame

\* while (scnt) n = mc_send(mc, &vals[k], scnt);
LoopSend(t) ==
    /\ th[t].pc = "idle" /\ th[t].count > 0
    /\ cne_ring_free_count(hdr[LoopHandle].rings[MC_SEND_RING]) = 0 =>
          ncalls < MaxLoopSpins
    /\ McSend(t, LoopHandle, SOME_OBJS, th[t].count, LoopCalls)

\* Variant of LoopReturn: whatever was sent, nothing is left to send.
LoopReturnOnce(t) ==
    /\ th[t].pc = "ret" /\ th[t].op = "send"
    /\ th[t].ret >= 0
    /\ th' = [th EXCEPT ![t] = Idle]
    /\ UNCHANGED Frame

\* if (n < 0) goto err; scnt -= n; k += n;
LoopReturn(t) ==
    /\ th[t].pc = "ret" /\ th[t].op = "send"
    /\ th[t].ret >= 0
    /\ th' = [th EXCEPT ![t] = [Idle EXCEPT !.count = th[t].count - th[t].ret]]
    /\ UNCHANGED Frame

\* n = mc_recv(mc, vals, cne_countof(vals), 0) of the server.
LoopRecv(t) ==
    /\ hs[Parent(1)] = "live"
    /\ cne_ring_count(hdr[Parent(1)].rings[MC_RECV_RING]) = 0 => ncalls < MaxLoopSpins
    /\ McRecv(t, Parent(1), SOME_OBJS, MaxBurst, LoopCalls)

\* Server t1 creates the parent and receives; client t2 waits for the
\* parent, attaches and sends LoopObjects objects in its loop.
NextLoop ==
    \/ \E t \in OneCaller :
           \/ mc_lookup(<<"a">>) = NULL /\ McCreate(t, <<"a">>, 0, RingCount, {})
           \/ InitCreate(t, OneBlock)
           \/ InitInsert(t)
           \/ LoopRecv(t)
           \/ Return(t)
    \/ \E t \in Callers \ OneCaller :
           \/ /\ mc_lookup(<<"a">>) # NULL /\ hs[LoopHandle] = "unknown"
              /\ McCreate(t, <<"a">>, 0, RingCount, {})
           \/ ChildAlloc(t)
           \/ AttachFill(t)
           \/ th[t].op = "init" /\ Return(t)
           \/ LoopBegin(t)
           \/ LoopSend(t)
           \/ LoopReturn(t)

\* Both threads keep running: the server keeps calling mc_recv and the
\* client goes on with its loop.
SpecLoop ==
    /\ Init /\ [][NextLoop]_vars
    /\ \A t \in OneCaller : WF_vars(LoopRecv(t)) /\ WF_vars(Return(t))
    /\ \A t \in Callers \ OneCaller : WF_vars(LoopSend(t)) /\ WF_vars(LoopReturn(t))

\* Two threads and every operation that takes the mutex: mc_create,
\* mc_lookup with and without a name, mc_destroy of a parent, of a child
\* and of NULL, mc_dump and mc_list.
NextMutex ==
    \E t \in Callers :
        \/ McCreate(t, <<"a">>, 0, RingCount, {})
        \/ InitCreate(t, OneBlock)
        \/ InitInsert(t)
        \/ ChildAlloc(t)
        \/ AttachFill(t)
        \/ \E h \in PairPtrs \cup {NULL} : McDestroy(t, h)
        \/ DestroyChildren(t)
        \/ DestroyFree(t)
        \/ DestroyZero(t)
        \/ \E name \in {<<"a">>, NULL_STR} : McLookup(t, name)
        \/ \E h \in PairPtrs : McDump(t, h)
        \/ DumpDone(t)
        \/ McList(t)
        \/ ListDump(t)
        \/ Return(t)

SpecMutex == Init /\ [][NextMutex]_vars

\* Two threads on one parent block: create, attach, the destroy of the
\* parent, and sends and receives on the child handles.
NextTear ==
    \E t \in Callers :
        \/ McCreate(t, <<"a">>, 0, RingCount, {})
        \/ InitCreate(t, OneBlock)
        \/ InitInsert(t)
        \/ ChildAlloc(t)
        \/ AttachFill(t)
        \/ McDestroy(t, Parent(1))
        \/ DestroyChildren(t)
        \/ DestroyFree(t)
        \/ \E i \in Slots : McSend(t, Child(1, i), SOME_OBJS, 1, MaxTearCalls)
        \/ \E i \in Slots : McRecv(t, Child(1, i), SOME_OBJS, 1, MaxTearCalls)
        \/ Return(t)

SpecTear == Init /\ [][NextTear]_vars

\* ==================================================================
\* Properties
\* ==================================================================
IsPrefix(s, u) == Len(s) <= Len(u) /\ SubSeq(u, 1, Len(s)) = s
ChildPtrs(b) == {Child(b, i) : i \in Slots}
\* Block b holds a live parent whose only attached child is slot 0.
OneChild(b) ==
    /\ hs[Parent(b)] = "live"
    /\ hs[Child(b, 0)] = "live"
    /\ \A i \in Slots \ {0} : hs[Child(b, i)] = "unknown"

\* C1: for a parent and its one attached child, whatever sends and receives
\* were called on the two, the objects mc_recv has returned on one endpoint
\* are, in order, a prefix of the objects mc_send has accepted on the other
\* endpoint; this holds in each of the two directions.
C1_FifoPrefix ==
    \A b \in Blocks :
        OneChild(b) =>
            /\ IsPrefix(got[Child(b, 0)], SentSeq(Parent(b)))
            /\ IsPrefix(got[Parent(b)], SentSeq(Child(b, 0)))
\* The child has received two objects of the parent and the parent one of
\* the child.
C1_Witness ==
    \E b \in Blocks :
        /\ OneChild(b)
        /\ Len(got[Child(b, 0)]) >= 2
        /\ Len(got[Parent(b)]) >= 1

\* A child handle some caller holds, of a parent some caller holds.
LiveChild(c) == hs[c] = "live" /\ hs[Parent(c[1])] = "live"

\* C2: the first mc_init of a name returns a handle with the Parent cookie,
\* a further mc_init of the name returns another handle, with the Child
\* cookie, and in every reachable state each live child's receive ring is
\* its parent's send ring and its send ring is its parent's receive ring.
C2_ChildReversesParent ==
    \A b \in Blocks : \A c \in ChildPtrs(b) :
        LiveChild(c) =>
            /\ hdr[Parent(b)].cookie = MC_PARENT_COOKIE
            /\ hdr[c].cookie = MC_CHILD_COOKIE
            /\ hdr[c].rings[MC_RECV_RING] = hdr[Parent(b)].rings[MC_SEND_RING]
            /\ hdr[c].rings[MC_SEND_RING] = hdr[Parent(b)].rings[MC_RECV_RING]

\* The attaches to the parent in block b that have succeeded: the children
\* returned so far and the slots whose compare-and-swap a caller has won.
Attached(b) ==
    Cardinality({c \in ChildPtrs(b) : hs[c] = "live"})
    + Cardinality({t \in Threads : th[t].pc = "attach_fill" /\ th[t].h = Parent(b)})

\* C3: however concurrent mc_init calls attaching to one parent interleave,
\* the compare-and-swap of mc_child_alloc hands a slot to at most one of
\* them: an attach never returns a slot that was already returned or that
\* another caller is filling, and no more attaches succeed than there are
\* slots.
C3_SlotGrantedOnce ==
    /\ [](\A b \in Blocks : Attached(b) <= MC_MAX_CHILDREN)
    /\ [][\A t \in Threads :
            (th[t].pc = "attach_fill" /\ th'[t].pc = "ret") =>
                /\ hs[th'[t].ret] # "live"
                /\ \A u \in Threads \ {t} :
                      ~(th[u].pc = "attach_fill" /\ th[u].h = th[t].h
                        /\ th[u].i = th[t].i)]_vars
\* Two callers hold children of the same parent, returned to them by
\* attaches that ran at the same time, and the children differ.
C3_Witness ==
    \E t, u \in Threads :
        /\ t # u
        /\ th[t].pc = "ret" /\ th[t].op = "init" /\ th[t].ret \in ChildPtrs(1)
        /\ th[u].pc = "ret" /\ th[u].op = "init" /\ th[u].ret \in ChildPtrs(1)
        /\ th[t].ret # th[u].ret

\* The name under which the parent in block b is registered.
RegName(b) == hdr[Parent(b)].name

\* C4: the registry never holds two parents of the same name, so that a
\* creation of a name always finds the parent an earlier creation of the
\* name has registered.
C4_UniqueNames ==
    \A j, k \in 1 .. Len(registry) :
        j # k => RegName(registry[j]) # RegName(registry[k])

\* No call is in progress.
Quiet == \A t \in Threads : th[t].pc \in {"idle", "ret"}
\* mc_destroy of the parent in block b has run to its end: the parent is out
\* of the registry and its rings are freed.
ParentDestroyed(b) ==
    /\ hs[Parent(b)] = "destroyed"
    /\ ~InList(registry, b)
    /\ \A k \in {MC_RECV_RING, MC_SEND_RING} :
          hdr[Parent(b)].rings[k] # NULL_RING
          /\ ring[hdr[Parent(b)].rings[k]].st = "freed"

\* C5: once an mc_destroy(parent) and an mc_init of the same name that ran
\* at the same time have both returned, no slot of the destroyed parent has
\* the Child cookie: mc_init has not handed out a child of a parent that is
\* out of the registry and whose rings are freed.
C5_NoChildOfDestroyedParent ==
    \A b \in Blocks :
        (Quiet /\ ParentDestroyed(b)) =>
            \A c \in ChildPtrs(b) : hdr[c].cookie # MC_CHILD_COOKIE

\* C6: a call of mc_name, mc_info, mc_send, mc_recv or mc_size on a handle
\* that mc_destroy has been called on and has returned for, parent or child,
\* fails cleanly: mc_name returns NULL, the others return -1, and the call
\* touches no freed ring.
C6_DestroyedHandleFails ==
    \A t \in Threads :
        (/\ th[t].pc = "ret"
         /\ th[t].op \in {"name", "info", "send", "recv", "size"}
         /\ th[t].h # NULL
         /\ hs[th[t].h] = "destroyed") =>
            /\ ~th[t].ub
            /\ th[t].ret = IF th[t].op = "name" THEN NULL_STR ELSE -1

\* Every child slot of the parent in block b has the Child cookie.
AllChild(b) == \A c \in ChildPtrs(b) : hdr[c].cookie = MC_CHILD_COOKIE

\* C7: an attach to a parent all of whose MC_MAX_CHILDREN slots have the
\* Child cookie changes nothing: each step of it (the lookup, each turn of
\* the loop of mc_child_alloc) leaves every header, the rings, the memory
\* and the registry as they are, the loop goes on to the next slot, and
\* after the last slot the call returns NULL.
C7_FullParentRefuses ==
    [][\A t \in Threads :
          /\ (th[t].pc = "idle" /\ th'[t].pc = "child_alloc"
              /\ AllChild(th'[t].h[1])) =>
                 (hdr' = hdr /\ registry' = registry /\ ring' = ring /\ mem' = mem)
          /\ (th[t].pc = "child_alloc" /\ th'[t] # th[t] /\ AllChild(th[t].h[1])) =>
                 /\ hdr' = hdr /\ registry' = registry /\ ring' = ring /\ mem' = mem
                 /\ IF th[t].i + 1 < MC_MAX_CHILDREN
                    THEN th'[t].pc = "child_alloc" /\ th'[t].i = th[t].i + 1
                    ELSE th'[t].pc = "ret" /\ th'[t].ret = NULL]_vars
\* An attach has gone through all the slots of a parent whose slots are all
\* held by live children, and has returned NULL.
C7_Witness ==
    \E t \in Threads :
        /\ th[t].pc = "ret" /\ th[t].op = "init"
        /\ th[t].ret = NULL /\ th[t].i = MC_MAX_CHILDREN
        /\ AllChild(1)
        /\ \A c \in ChildPtrs(1) : hs[c] = "live"

\* Thread t takes the step of a whole mc_send / mc_recv call.
SendStep(t) == th[t].pc = "idle" /\ th'[t].pc = "ret" /\ th'[t].op = "send"
RecvStep(t) == th[t].pc = "idle" /\ th'[t].pc = "ret" /\ th'[t].op = "recv"

\* C8: mc_send of count >= 0 objects on a valid handle whose send ring has f
\* free entries returns f when f < count and count otherwise, appends that
\* many of the objects, the first ones and in order, to the ring, adds the
\* returned number to send_cnt and 1 to send_calls, and adds 1 to send_full
\* exactly when f < count.
C8_SendPartial ==
    [][\A t \in Threads :
          LET h == th'[t].h
              count == th'[t].count
              r == hdr[h].rings[MC_SEND_RING]
              f == cne_ring_free_count(r)
              n == IF f < count THEN f ELSE count
          IN  (SendStep(t) /\ ValidHandle(h) /\ count >= 0 /\ RingLive(r)) =>
                 /\ th'[t].ret = n
                 /\ ring'[r].q = ring[r].q \o SubSeq(Objs(h, count), 1, n)
                 /\ hdr'[h].send_cnt = hdr[h].send_cnt + n
                 /\ hdr'[h].send_calls = hdr[h].send_calls + 1
                 /\ hdr'[h].send_full = hdr[h].send_full + (IF f < count THEN 1 ELSE 0)]_vars
\* A send of two objects into a ring with one free entry has returned 1 and
\* counted one full ring, after an earlier send of two was taken whole.
C8_Witness ==
    \E t \in Threads :
        /\ th[t].pc = "ret" /\ th[t].op = "send"
        /\ th[t].count = 2 /\ th[t].ret = 1
        /\ hdr[th[t].h].send_full = 1
        /\ hdr[th[t].h].send_calls = 2
        /\ hdr[th[t].h].send_cnt = 3

\* The endpoints paired with h: the live children of a parent, the parent of
\* a child.
Peers(h) ==
    IF h[2] = PARENT_SLOT
    THEN {c \in ChildPtrs(h[1]) : hs[c] = "live" /\ hdr[c].cookie = MC_CHILD_COOKIE}
    ELSE {q \in {Parent(h[1])} : hs[q] = "live" /\ hdr[q].cookie = MC_PARENT_COOKIE}

\* C9: an mc_send on a valid handle h that returns k >= 0 raises
\* mc_recv_count(p) of every paired endpoint p and mc_send_count(h) by k and
\* lowers the send free count mc_size(h) reports by k; an mc_recv on a valid
\* handle p that returns n >= 0 lowers mc_recv_count(p) by n.
C9_CountsFollowTraffic ==
    [][\A t \in Threads :
          (SendStep(t) \/ RecvStep(t)) =>
             \A h \in Ptrs : (th'[t].h = h /\ ValidHandle(h)) =>
                \A k \in 0 .. MaxBurst : (th'[t].ret = k) =>
                   /\ (SendStep(t) /\ RingLive(hdr[h].rings[MC_SEND_RING])) =>
                         /\ \A p \in Peers(h) :
                               mc_recv_count(p)' = mc_recv_count(p) + k
                         /\ mc_send_count(h)' = mc_send_count(h) + k
                         /\ mc_size_free(h)'[2] = mc_size_free(h)[2] - k
                   /\ (RecvStep(t) /\ RingLive(hdr[h].rings[MC_RECV_RING])) =>
                         mc_recv_count(h)' = mc_recv_count(h) - k]_vars
\* The child has received one of the two objects the parent sent, and its
\* receive count shows the one that is left.
C9_Witness ==
    \E t \in Threads :
        /\ th[t].pc = "ret" /\ th[t].op = "recv" /\ th[t].ret = 1
        /\ th[t].h = Child(1, 0) /\ hs[Child(1, 0)] = "live"
        /\ sent[Parent(1)] = 2
        /\ mc_recv_count(Child(1, 0)) = 1
        /\ mc_send_count(Parent(1)) = 1

\* C10: when mc_destroy of a registered parent returns, mc_lookup of the
\* parent's name finds nothing, so that a later mc_init of the name creates
\* a new parent.
C10_DestroyedNameIsGone ==
    [][\A t \in Threads : \A b \in Blocks :
          (/\ th[t].pc = "destroy_free" /\ th[t].te /\ th[t].h = Parent(b)
           /\ th'[t].pc = "ret") =>
              LookupFrom(registry', RegName(b)') = NULL]_vars

\* C11: a parent that mc_init built in memory of its own is recorded as
\* self-allocated, that is the MC_MEM_ALLOCATED bit reads back as set from
\* its flags field, and once mc_destroy of it has returned its block is
\* freed.
C11_SelfAllocatedIsFreed ==
    \A b \in Blocks :
        /\ mem[b] # "none" => HasBit(flags[b], MC_MEM_ALLOCATED)
        /\ (Quiet /\ ParentDestroyed(b)) => mem[b] = "freed"

\* C12: mc_send or mc_recv called with a NULL handle, a NULL objs array, a
\* handle whose cookie is MC_FREE_COOKIE or a negative count returns -1 and
\* changes no header (so no counter) and no ring.
InvalidCall(a) ==
    \/ a.h = NULL
    \/ a.objs = NULL_OBJS
    \/ a.count < 0
    \/ hdr[a.h].cookie = MC_FREE_COOKIE
C12_InvalidCallIsRefused ==
    [][\A t \in Threads :
          (SendStep(t) \/ RecvStep(t)) =>
              (InvalidCall(th'[t]) =>
                  /\ th'[t].ret = -1
                  /\ ~th'[t].ub
                  /\ hdr' = hdr
                  /\ ring' = ring)]_vars
\* A receive with a NULL objs array was refused on a live parent that had
\* already served one valid call.
C12_Witness ==
    \E t \in Threads :
        /\ th[t].pc = "ret" /\ th[t].op = "recv" /\ th[t].ret = -1
        /\ th[t].objs = NULL_OBJS /\ th[t].count = 1
        /\ th[t].h # NULL /\ th[t].h[2] = PARENT_SLOT
        /\ hdr[th[t].h].cookie = MC_PARENT_COOKIE
        /\ hdr[th[t].h].recv_calls = 1

\* A call of mc_recv by t has returned, and it had passed the checks.
RecvReturned(t) ==
    /\ th[t].pc = "ret" /\ th[t].op = "recv"
    /\ th[t].h # NULL /\ th[t].objs # NULL_OBJS /\ th[t].count >= 0
    /\ th[t].was.cookie # MC_FREE_COOKIE

\* C13 as stated: every mc_recv call that passes the checks adds 1 to
\* recv_calls; when it returns 0 it adds 1 to recv_empty and leaves recv_cnt,
\* when it returns n > 0 it adds n to recv_cnt and leaves recv_empty.
C13_EveryZeroCountsEmpty ==
    \A t \in OneCaller :
        RecvReturned(t) =>
            LET c == hdr[th[t].h]
                w == th[t].was
            IN  /\ c.recv_calls = w.recv_calls + 1
                /\ th[t].ret = 0 =>
                       c.recv_empty = w.recv_empty + 1 /\ c.recv_cnt = w.recv_cnt
                /\ th[t].ret > 0 =>
                       c.recv_cnt = w.recv_cnt + th[t].ret /\ c.recv_empty = w.recv_empty

\* C13, amended: every mc_recv call that passes the checks adds 1 to
\* recv_calls; when it returns 0 and count > 0 it adds 1 to recv_empty and
\* leaves recv_cnt (with count == 0 it returns 0 and leaves both); when it
\* returns n > 0 it adds n to recv_cnt and leaves recv_empty.
C13_RecvCounters ==
    \A t \in OneCaller :
        RecvReturned(t) =>
            LET c == hdr[th[t].h]
                w == th[t].was
            IN  /\ c.recv_calls = w.recv_calls + 1
                /\ th[t].ret >= 0
                /\ (th[t].ret = 0 /\ th[t].count > 0) =>
                       c.recv_empty = w.recv_empty + 1 /\ c.recv_cnt = w.recv_cnt
                /\ th[t].count = 0 =>
                       /\ th[t].ret = 0
                       /\ c.recv_empty = w.recv_empty /\ c.recv_cnt = w.recv_cnt
                /\ th[t].ret > 0 =>
                       c.recv_cnt = w.recv_cnt + th[t].ret /\ c.recv_empty = w.recv_empty
\* A polling mc_recv found the ring empty at first and returned the object
\* that arrived while it waited.
C13_Witness ==
    \E t \in OneCaller :
        /\ RecvReturned(t) /\ th[t].ret = 1 /\ th[t].msec > 0
        /\ th[t].tries >= 2
        /\ hdr[th[t].h].recv_cnt = 1

\* Thread t enters mc_recv in this step.
RecvEnters(t) == th[t].pc = "idle" /\ th'[t].pc # "idle" /\ th'[t].op = "recv"

\* C14: mc_recv with count == 0 on a valid handle returns 0 in the step that
\* enters it, whatever msec is: it adds 1 to recv_calls of the handle, makes
\* no dequeue attempt, reads no clock, and leaves every other counter of
\* every header and both rings as they were.
C14_ZeroCountReturnsAtOnce ==
    [][\A t \in Threads :
          RecvEnters(t) =>
              \A h \in Ptrs :
                  (/\ th'[t].h = h /\ th'[t].count = 0
                   /\ th'[t].objs # NULL_OBJS /\ hdr[h].cookie # MC_FREE_COOKIE) =>
                      /\ th'[t].pc = "ret" /\ th'[t].ret = 0
                      /\ th'[t].tries = 0
                      /\ hdr' = [hdr EXCEPT ![h].recv_calls = @ + 1]
                      /\ ring' = ring
                      /\ got' = got]_vars
\* mc_recv with count == 0 and a timeout has returned 0 on a handle whose
\* receive ring held an object.
C14_Witness ==
    \E t \in OneCaller :
        /\ RecvReturned(t) /\ th[t].count = 0 /\ th[t].msec > 0 /\ th[t].ret = 0
        /\ Len(ring[hdr[th[t].h].rings[MC_RECV_RING]].q) > 0

\* The deadline of a call entered at start with a timeout of msec, in ticks.
Deadline(start, msec) == start + (cne_get_timer_hz \div 1000) * msec

\* C15: an mc_recv with msec == 0 (and count > 0) makes exactly one dequeue
\* attempt; an mc_recv with msec > 0 whose receive ring stayed empty has
\* returned 0 only when the clock has reached start + msec, and recv_empty is
\* then 1 larger than the call found it, however often it polled.
C15_ZeroOnlyAtDeadline ==
    \A t \in OneCaller :
        (RecvReturned(t) /\ th[t].count > 0) =>
            /\ th[t].msec = 0 => th[t].tries = 1
            /\ (/\ th[t].msec > 0 /\ th[t].ret = 0
                /\ ring[hdr[th[t].h].rings[MC_RECV_RING]].q = <<>>) =>
                   /\ clock >= Deadline(th[t].start, th[t].msec)
                   /\ hdr[th[t].h].recv_empty = th[t].was.recv_empty + 1

\* Thread t is inside __recv, past the fetch-add of recv_calls.
Receiving(t) ==
    th[t].pc \in {"recv_loop", "recv_clock", "recv_once", "recv_count"}
\* Thread t makes a dequeue attempt of its polling loop in this step.
PollStep(t) ==
    /\ th[t].pc = "recv_loop"
    /\ th'[t].pc = "recv_clock" \/ th'[t].nb_objs # th[t].nb_objs

\* C16: with the clock advancing every mc_recv call returns; its polling loop
\* makes a further dequeue attempt only while no attempt has returned an
\* object and the clock it last read was before the deadline start + msec.
C16_RecvTerminates ==
    /\ \A t \in OneCaller : Receiving(t) ~> (th[t].pc = "ret")
    /\ [][\A t \in OneCaller :
             PollStep(t) =>
                 /\ th[t].nb_objs = 0
                 /\ th[t].begin < Deadline(th[t].start, th[t].msec)]_vars
\* A polling mc_recv found the ring empty more than once and returned 0
\* with the clock at its deadline.
C16_Witness ==
    \E t \in OneCaller :
        /\ RecvReturned(t) /\ th[t].msec > 0 /\ th[t].ret = 0
        /\ th[t].tries >= 2
        /\ th[t].begin >= Deadline(th[t].start, th[t].msec)

\* The calls of the data path and the calls that read counters and sizes.
DataOps == {"send", "recv", "size", "info", "recv_count", "send_count"}

\* C17: mc_send, mc_recv, mc_size, mc_info, mc_recv_count and mc_send_count
\* never own the registry mutex, and while another thread owns it (inside
\* mc_destroy, mc_dump or mc_list) each of them can be entered and every
\* step of a send or receive in progress can be taken.
C17_DataPathTakesNoLock ==
    \A t \in Callers \ OneCaller :
        /\ th[t].op \in DataOps => mutex # t
        /\ mutex \notin {NoThread, t} =>
              /\ th[t].pc = "send_enq" => ENABLED SendEnqueue(t)
              /\ th[t].pc = "send_cnt" => ENABLED SendCnt(t)
              /\ th[t].pc = "send_full" => ENABLED SendDone(t)
              /\ th[t].pc = "recv_once" => ENABLED RecvOnce(t)
              /\ th[t].pc = "recv_count" => ENABLED RecvCount(t)
              /\ th[t].pc = "idle" =>
                    \A h \in Handles \cap PairPtrs :
                        /\ ncalls < MaxLockCalls =>
                              /\ ENABLED SendEnter(t, h, SOME_OBJS, 1, MaxLockCalls)
                              /\ ENABLED RecvEnter(t, h, SOME_OBJS, 1, 0, MaxLockCalls)
                        /\ ENABLED McSize(t, h)
                        /\ ENABLED McInfo(t, h)
                        /\ ENABLED McRecvCount(t, h)
                        /\ ENABLED McSendCount(t, h)
\* A send has returned with its object enqueued while mc_list, half way
\* through the list, holds the mutex.
C17_Witness ==
    \E t \in Callers \ OneCaller, u \in OneCaller :
        /\ mutex = u /\ th[u].pc = "list" /\ th[u].i = 1
        /\ th[t].pc = "ret" /\ th[t].op = "send" /\ th[t].ret = 1

\* No counter of header a is below that counter of header b.
CountersAtLeast(a, b) ==
    /\ a.send_calls >= b.send_calls /\ a.send_cnt >= b.send_cnt
    /\ a.send_full >= b.send_full /\ a.recv_calls >= b.recv_calls
    /\ a.recv_cnt >= b.recv_cnt /\ a.recv_empty >= b.recv_empty

ZeroedByDestroy(p) ==
    \E t \in Threads :
        /\ th[t].pc = "destroy_zero" /\ th[t].h = p
        /\ th'[t].pc = "ret"
        /\ hdr'[p] = ZeroHdr

RECURSIVE SumFn(_, _)
SumFn(f, S) ==
    IF S = {} THEN 0
    ELSE LET x == CHOOSE y \in S : TRUE IN f[x] + SumFn(f, S \ {x})
\* The objects that calls on h still at step pc have taken but not counted.
Uncounted(h, pc) ==
    SumFn([t \in Threads |->
              IF th[t].pc = pc /\ th[t].h = h THEN th[t].nb_objs ELSE 0], Threads)
\* No call of mc_send or mc_recv is in progress.
QuietData ==
    \A t \in Threads :
        th[t].pc \notin {"send_enq", "send_cnt", "send_full",
                         "recv_loop", "recv_clock", "recv_once", "recv_count"}

\* C19: no counter update is lost when calls on the same handles overlap:
\* send_calls and recv_calls together count every call entered, send_cnt of
\* a handle is the number of objects its sends enqueued less those of sends
\* that have not yet reached their fetch-add, and recv_cnt likewise; so once
\* all calls have returned send_cnt is the sum of the sends' return values
\* and recv_cnt that of the receives'.
C19_NoLostUpdate ==
    /\ SumFn([p \in Ptrs |-> hdr[p].send_calls + hdr[p].recv_calls], Ptrs) = ncalls
    /\ \A h \in Ptrs :
          /\ hdr[h].send_cnt + Uncounted(h, "send_cnt") = sent[h]
          /\ hdr[h].recv_cnt + Uncounted(h, "recv_count") = Len(got[h])
          /\ QuietData => hdr[h].send_cnt = sent[h] /\ hdr[h].recv_cnt = Len(got[h])
\* Two sends on one handle overlapped: one has returned, the other has
\* enqueued fewer objects than it offered and not yet counted them.
C19_Witness ==
    \E t, u \in Callers :
        /\ t # u /\ th[t].h = th[u].h
        /\ th[t].pc = "send_cnt" /\ th[t].nb_objs = 1 /\ th[t].count = 2
        /\ th[u].pc = "ret" /\ th[u].op = "send" /\ th[u].ret = 2
        /\ hdr[th[t].h].send_calls = 2 /\ hdr[th[t].h].send_cnt = 2

\* C20: the counters mc_info has written are those the header held at one
\* instant, so on return send_full is at most send_calls and recv_empty at
\* most recv_calls in *info, whatever other threads do on the handle.
C20_InfoIsSnapshot ==
    \A t \in Threads :
        (th[t].pc = "ret" /\ th[t].op = "info" /\ th[t].ret = 0) =>
            /\ th[t].out.send_full <= th[t].out.send_calls
            /\ th[t].out.recv_empty <= th[t].out.recv_calls
\* The element size or count is one mc_get_total_memsize and mc_init are
\* to refuse: a size that is neither 0 nor a multiple of 4, a count of 0,
\* one that is not a power of two, one above the ring maximum.
IsPowerOfTwo(n) == \E k \in 0 .. n : n = 2 ^ k
BadRingSize(esize, count) ==
    \/ esize # 0 /\ esize % 4 # 0
    \/ count = 0
    \/ ~IsPowerOfTwo(count)
    \/ count > CNE_RING_SZ_MASK

\* Thread t has taken a step of mc_init in this step.
InitStep(t) == th'[t] # th[t] /\ th'[t].op = "init"

\* C21: a call of mc_init whose element size is non-zero and not a multiple
\* of 4, or whose element count is zero, not a power of two or above the
\* ring maximum, returns NULL, registers no parent and claims no child
\* slot, whether or not a parent of that name exists: no step of such a
\* call changes the registry or any header, the call gets no further than
\* the size computation and what it returns is NULL.
C21_BadSizeIsRefused ==
    [][\A t \in Threads :
          (InitStep(t) /\ BadRingSize(th'[t].esize, th'[t].count)) =>
              /\ registry' = registry
              /\ hdr' = hdr
              /\ th'[t].pc \in {"ret", "init_create"}
              /\ th'[t].pc = "ret" => th'[t].ret = NULL]_vars

C23_NoChildCreateAttachesNothing ==
    [][\A t \in Threads :
          (/\ th[t].pc = "idle" /\ th'[t].op = "init"
           /\ MC_NO_CHILD_CREATE \in th'[t].flags
           /\ mc_lookup(th'[t].name) # NULL) =>
              /\ th'[t].pc = "ret"
              /\ th'[t].ret = NULL
              /\ registry' = registry
              /\ hdr' = hdr]_vars

\* Such a call, with arguments that pass every check, has returned NULL
\* while the parent of that name has a free slot.
C23_Witness ==
    \E t \in Threads :
        /\ th[t].pc = "ret" /\ th[t].op = "init"
        /\ th[t].errno = "none" /\ MC_NO_CHILD_CREATE \in th[t].flags
        /\ ~BadRingSize(th[t].esize, th[t].count)
        /\ mc_lookup(th[t].name) # NULL
        /\ \E i \in Slots : hdr[Child(mc_lookup(th[t].name)[1], i)].cookie = MC_FREE_COOKIE
        /\ th[t].ret = NULL

\* C24: a call of mc_init with caller memory of size 0 returns NULL with
\* EINVAL, and one with caller memory smaller than
\* mc_get_total_memsize(esize, count) returns NULL, with ENOMEM when its
\* flags are valid; no step of either call writes the caller's memory,
\* changes the registry or claims a child slot.
C24_SmallMemoryIsRefused ==
    [][\A t \in Threads :
          (InitStep(t) /\ th'[t].addr # NULL) =>
              LET a == th'[t]
                  untouched == /\ mem' = mem /\ flags' = flags /\ hdr' = hdr
                               /\ registry' = registry
              IN  /\ a.size = 0 =>
                        /\ a.pc = "ret" /\ a.ret = NULL /\ a.errno = "EINVAL"
                        /\ untouched
                  /\ (a.size > 0 /\ a.size < mc_get_total_memsize(a.esize, a.count)) =>
                        /\ a.pc \in {"ret", "init_create"}
                        /\ a.pc = "ret" =>
                              /\ a.ret = NULL
                              /\ a.flags \subseteq McInitFlags => a.errno = "ENOMEM"
                        /\ untouched]_vars

\* C25: mc_get_total_memsize(esize, count) is -1 exactly when esize is
\* neither 0 nor a multiple of 4 or count is not a power of two or is above
\* the ring maximum; esize 0 gives what esize 8 gives; any other result S
\* is positive, a multiple of the cache line and at least sizeof(struct
\* msg_chan) plus twice the ring's memory; and mc_init of a name that is
\* not registered, with valid flags and caller memory of exactly S bytes,
\* goes on step by step to return the caller's address as a registered
\* parent.
C25_TotalMemsize ==
    [][\A t \in Threads :
          InitStep(t) =>
              LET a == th'[t]
                  S == mc_get_total_memsize(a.esize, a.count)
                  e == IF a.esize = 0 THEN 8 ELSE a.esize
                  unused == th[t].pc = "idle" /\ mc_lookup(a.name) = NULL
                  building == th[t].pc \in {"init_create", "init_insert"}
              IN  /\ (S = -1) <=> BadRingSize(a.esize, a.count)
                  /\ S = mc_get_total_memsize(e, a.count)
                  /\ S # -1 =>
                        /\ S > 0
                        /\ S % CNE_CACHE_LINE_SIZE = 0
                        /\ S >= sizeof_msg_chan
                                  + 2 * cne_ring_get_memsize_elem(e, a.count)
                  /\ (/\ S # -1 /\ a.addr # NULL /\ a.size = S
                      /\ a.flags \subseteq McInitFlags
                      /\ unused \/ building) =>
                        \/ a.pc \in {"init_create", "init_insert"}
                        \/ /\ a.pc = "ret" /\ a.ret = a.addr
                           /\ hdr'[a.addr].cookie = MC_PARENT_COOKIE
                           /\ InList(registry', a.addr[1])]_vars

\* mc_init has returned a parent built in caller memory of exactly the
\* bytes mc_get_total_memsize gave, a size the rounding had to raise.
C25_Witness ==
    \E t \in Threads :
        /\ th[t].pc = "ret" /\ th[t].op = "init"
        /\ th[t].addr # NULL /\ th[t].ret = th[t].addr
        /\ th[t].size = mc_get_total_memsize(th[t].esize, th[t].count)
        /\ th[t].size > mc_get_total_memsize_unaligned(th[t].esize, th[t].count)

\* C26: mc_lookup(name) returns NULL for a NULL name; what it returns
\* otherwise is a parent that is in the registry and whose stored name is
\* "P:" followed by name, never a child slot, and it returns NULL only when
\* the registry has no such parent; the call changes nothing (registry,
\* headers with their cookies and counters, rings, memory) and the caller
\* does not own the mutex when it returns.
C26_LookupFindsRegisteredParent ==
    [][\A t \in Threads :
          (th[t].pc = "idle" /\ th'[t].op = "lookup") =>
              LET name == th'[t].name
                  mc == th'[t].ret
                  Named(b) == /\ InList(registry, b)
                              /\ hdr[Parent(b)].name = <<"P", ":">> \o name
              IN  /\ th'[t].pc = "ret"
                  /\ name = NULL_STR => mc = NULL
                  /\ mc # NULL => mc[2] = PARENT_SLOT /\ Named(mc[1])
                  /\ (mc = NULL /\ name # NULL_STR) => \A b \in Blocks : ~Named(b)
                  /\ UNCHANGED <<registry, mutex, mem, flags, hdr, ring>>
                  /\ mutex' # t]_vars

\* A lookup has returned a registered parent that has an attached child.
C26_Witness ==
    \E t \in Threads :
        /\ th[t].pc = "ret" /\ th[t].op = "lookup"
        /\ th[t].ret # NULL
        /\ hdr[th[t].ret].cookie = MC_PARENT_COOKIE
        /\ \E i \in Slots : hdr[Child(th[t].ret[1], i)].cookie = MC_CHILD_COOKIE

C28_UnregisteredParentIsTornDown ==
    [][\A t \in Threads :
          (th[t].pc = "destroy_free" /\ th'[t].pc = "ret" /\ ~th[t].te) =>
              LET mc == th[t].h IN
              /\ ~RingLive(hdr[mc].rings[MC_RECV_RING])'
              /\ ~RingLive(hdr[mc].rings[MC_SEND_RING])'
              /\ \A i \in Slots : hdr'[Child(mc[1], i)].cookie # MC_CHILD_COOKIE]_vars

\* C29: while a parent is live, whatever attaches and destroys came before,
\* the index of its child slot i is i and its own index is MC_MAX_CHILDREN;
\* the name of each of its live children is "C<i>:" and the parent's name
\* for the child's own slot i, and two live children of one parent have
\* different names.
C29_SlotIndexIsPosition ==
    \A b \in Blocks :
        hs[Parent(b)] = "live" =>
            LET Live(i) == hs[Child(b, i)] = "live"
                           /\ hdr[Child(b, i)].cookie = MC_CHILD_COOKIE
            IN  /\ hdr[Parent(b)].index = MC_MAX_CHILDREN
                /\ \A i \in Slots : hdr[Child(b, i)].index = i
                /\ \A i \in Slots :
                      Live(i) => hdr[Child(b, i)].name =
                                    <<"C", i, ":">> \o Skip2(hdr[Parent(b)].name)
                /\ \A i, j \in Slots :
                      (Live(i) /\ Live(j) /\ i # j) =>
                          hdr[Child(b, i)].name # hdr[Child(b, j)].name

\* C30: a child handle an attach has returned, as long as neither it nor
\* its parent has been passed to mc_destroy since, has the Child cookie, a
\* child's name of its parent and its parent's ring pair swapped, also when
\* the previous owner of the slot is still inside its mc_destroy.
C30_LiveChildKeepsHeader ==
    \A c \in Ptrs :
        (c[2] # PARENT_SLOT /\ LiveChild(c)) =>
            LET parent == Parent(c[1]) IN
            /\ hdr[c].cookie = MC_CHILD_COOKIE
            /\ \E k \in Slots :
                   hdr[c].name = <<"C", k, ":">> \o Skip2(hdr[parent].name)
            /\ hdr[c].rings = <<hdr[parent].rings[MC_SEND_RING],
                                hdr[parent].rings[MC_RECV_RING]>>

\* C31: mc_destroy of a handle whose cookie is Child makes that slot's
\* cookie Free in its first step and leaves the slot's header zeroed when
\* it returns; no step of the call changes the registry, a ring or what it
\* holds, or the header of the parent or of any other slot (cookie, name,
\* rings, counters).
C31_ChildDestroyTouchesOnlyItsSlot ==
    [][\A t \in Threads :
          LET ch == th'[t].h
              entered == th[t].pc = "idle" /\ th'[t].op = "destroy" /\ ch # NULL
                         /\ hdr[ch].cookie = MC_CHILD_COOKIE
              zeroing == th[t].pc = "destroy_zero" /\ th'[t] # th[t]
          IN  (entered \/ zeroing) =>
                  /\ registry' = registry
                  /\ ring' = ring
                  /\ \A p \in Ptrs : p # ch => hdr'[p] = hdr[p]
                  /\ entered => /\ th'[t].pc = "destroy_zero"
                                /\ hdr'[ch].cookie = MC_FREE_COOKIE
                  /\ zeroing => th'[t].pc = "ret" /\ hdr'[ch] = ZeroHdr]_vars

\* mc_destroy of a child has returned while its parent holds a sent object
\* and has counted the send, and another child of that parent is attached.
C31_Witness ==
    \E t \in Threads, c \in Ptrs :
        /\ th[t].pc = "ret" /\ th[t].op = "destroy" /\ th[t].h = c
        /\ c[2] # PARENT_SLOT /\ hdr[c] = ZeroHdr
        /\ hdr[Parent(c[1])].cookie = MC_PARENT_COOKIE
        /\ hdr[Parent(c[1])].send_cnt >= 1
        /\ \E r \in RingIds : Len(ring[r].q) >= 1
        /\ \E i \in Slots : hdr[Child(c[1], i)].cookie = MC_CHILD_COOKIE

\* No thread is inside mc_destroy of parent mc.
TornDown(mc) ==
    /\ hs[mc] = "destroyed"
    /\ ~InList(registry, mc[1])
    /\ \A u \in Threads : ~(th[u].op = "destroy" /\ th[u].h = mc /\ th[u].pc # "ret")

\* C32: mc_destroy of a registered parent removes its registry entry and
\* frees both rings in its first step, then turns every child slot whose
\* cookie is Child to Free and leaves the slots that are Free as they are,
\* holding the mutex from the first step to the return; once it has
\* returned, mc_send and mc_recv on a child handle of that parent return -1.
C32_ParentDestroyFreesChildren ==
    [][\A t \in Threads :
          LET mc == th'[t].h
              entered == /\ th[t].pc = "idle" /\ th'[t].op = "destroy" /\ mc # NULL
                         /\ hdr[mc].cookie = MC_PARENT_COOKIE
                         /\ InList(registry, mc[1])
              sweeping == th[t].pc = "destroy_children" /\ th'[t] # th[t]
              leaving == th[t].pc = "destroy_free" /\ th[t].te /\ th'[t] # th[t]
              c == Child(th[t].h[1], th[t].i)
              data == /\ th[t].pc = "idle" /\ th'[t].op \in {"send", "recv"}
                      /\ mc # NULL /\ mc[2] # PARENT_SLOT
                      /\ TornDown(Parent(mc[1]))
          IN  /\ entered =>
                    /\ ~InList(registry', mc[1])
                    /\ ring'[hdr[mc].rings[MC_RECV_RING]].st = "freed"
                    /\ ring'[hdr[mc].rings[MC_SEND_RING]].st = "freed"
                    /\ mutex' = t
                    /\ th'[t].pc = "destroy_children" /\ th'[t].i = 0
              /\ sweeping =>
                    /\ hdr[c].cookie = MC_CHILD_COOKIE => hdr'[c].cookie = MC_FREE_COOKIE
                    /\ \A p \in Ptrs :
                          (p # c \/ hdr[c].cookie = MC_FREE_COOKIE) => hdr'[p] = hdr[p]
                    /\ mutex = t /\ mutex' = t
                    /\ IF th[t].i + 1 < MC_MAX_CHILDREN
                       THEN th'[t].pc = "destroy_children" /\ th'[t].i = th[t].i + 1
                       ELSE th'[t].pc = "destroy_free"
              /\ leaving =>
                    mutex = t /\ mutex' = NoThread /\ th'[t].pc = "ret"
              /\ data => th'[t].ret = -1]_vars

\* The slots of parent block b whose child is attached and not destroyed.
LiveSlots(b) == {j \in Slots : hs[Child(b, j)] = "live"}

\* C33: with one caller, the loop of mc_child_alloc ends by claiming the
\* free slot with the lowest position, a slot freed by mc_destroy included,
\* when fewer than MC_MAX_CHILDREN children of the parent are live, and by
\* returning NULL with no slot changed when all of them are live.
C33_AttachClaimsLowestFreeSlot ==
    [][\A t \in Threads :
          (th[t].pc = "child_alloc" /\ th'[t].pc # "child_alloc") =>
              LET b == th[t].h[1]
                  c == Child(b, th[t].i)
              IN  IF Cardinality(LiveSlots(b)) < MC_MAX_CHILDREN
                  THEN /\ th'[t].pc = "attach_fill" /\ th'[t].i = th[t].i
                       /\ hdr[c].cookie = MC_FREE_COOKIE
                       /\ hdr'[c].cookie = MC_CHILD_COOKIE
                       /\ \A j \in Slots :
                             j < th[t].i => hdr[Child(b, j)].cookie = MC_CHILD_COOKIE
                       /\ \A p \in Ptrs : p # c => hdr'[p] = hdr[p]
                  ELSE /\ th'[t].pc = "ret" /\ th'[t].ret = NULL
                       /\ hdr' = hdr]_vars

\* Slot 0, freed by mc_destroy of its child, is claimed again while the
\* child in slot 1 is live.
C33_Witness ==
    \E t \in Threads :
        /\ th[t].pc = "attach_fill" /\ th[t].i = 0
        /\ hs[Child(th[t].h[1], 0)] = "destroyed"
        /\ hs[Child(th[t].h[1], 1)] = "live"

\* C34: when mc_init returns NULL after it has taken a block for a new
\* parent (a ring is not created, the list entry is not allocated, the
\* mutex is not taken), both rings of the block are freed or were never
\* created, a block it allocated itself is freed, the registry is as it was
\* and mc_lookup of the name returns NULL.
C34_FailedInitReleasesAll ==
    [][\A t \in Threads :
          LET b == IF th[t].pc = "init_insert" THEN th[t].h[1]
                   ELSE InitMemory(th[t].addr, th[t].size,
                                   mc_get_total_memsize(th[t].esize, th[t].count),
                                   OneBlock)
              failed == /\ th[t].op = "init" /\ th'[t].pc = "ret" /\ th'[t].ret = NULL
                        /\ \/ th[t].pc = "init_insert"
                           \/ th[t].pc = "init_create" /\ mem' # mem
          IN  failed =>
                  /\ ring'[RecvRingOf(b)].st # "live"
                  /\ ring'[SendRingOf(b)].st # "live"
                  /\ th[t].addr = NULL => mem'[b] = "freed"
                  /\ registry' = registry
                  /\ ~InList(registry', b)
                  /\ LookupFrom(registry', MC_PARENT_PREFIX \o th[t].name) = NULL]_vars

\* The parent in block b is built: cookie, both rings, its own index.
Built(b) ==
    /\ hdr[Parent(b)].cookie = MC_PARENT_COOKIE
    /\ hdr[Parent(b)].index = MC_MAX_CHILDREN
    /\ \A k \in {MC_RECV_RING, MC_SEND_RING} :
          /\ hdr[Parent(b)].rings[k] \in RingIds
          /\ ring[hdr[Parent(b)].rings[k]].st = "live"

\* What C35 says of construction, of mc_lookup and of the first step of an
\* mc_create: a block enters the registry built, with the index of each
\* child slot set; a parent mc_lookup returns is registered and built, and
\* each slot no child was ever attached to has its index; an mc_create of a
\* registered name with valid arguments and without MC_NO_CHILD_CREATE
\* attaches to that parent, and only an mc_create of an unregistered name
\* goes on to build a parent.
VisibleWhenBuilt(t) ==
    /\ \A b \in Blocks :
          (~InList(registry, b) /\ InList(registry', b)) =>
              /\ Built(b)
              /\ \A i \in Slots : hdr[Child(b, i)].index = i
              /\ hdr'[Parent(b)] = hdr[Parent(b)]
    /\ (th[t].pc = "idle" /\ th'[t].op = "lookup" /\ th'[t].ret # NULL) =>
          LET mc == th'[t].ret IN
          /\ InList(registry, mc[1])
          /\ Built(mc[1])
          /\ \A i \in Slots :
                hs[Child(mc[1], i)] = "unknown" => hdr[Child(mc[1], i)].index = i
    /\ (th[t].pc = "idle" /\ th'[t].op = "init") =>
          LET mc == mc_lookup(th'[t].name) IN
          /\ th'[t].pc = "init_create" => mc = NULL
          /\ (mc # NULL /\ th'[t].errno = "none"
                /\ MC_NO_CHILD_CREATE \notin th'[t].flags) =>
                 th'[t].pc = "child_alloc" /\ th'[t].h = mc
          /\ registry' = registry
    /\ (th[t].pc = "attach_fill" /\ th'[t] # th[t]) =>
          /\ th'[t].pc = "ret"
          /\ th'[t].ret = Child(th[t].h[1], th[t].i)
          /\ registry' = registry

C36_TimedRecvTriesOnce ==
    [][\A t \in OneCaller :
          LET h == th'[t].h
              timed == /\ th'[t].op = "recv" /\ th'[t].msec > 0 /\ th'[t].count > 0
                       /\ h # NULL /\ th'[t].objs # NULL_OBJS
              held(a) == Len(ring[hdr[a.h].rings[MC_RECV_RING]].q) > 0
          IN  /\ (RecvEnters(t) /\ timed /\ hdr[h].cookie # MC_FREE_COOKIE) =>
                    /\ th'[t].pc = "recv_loop"
                    /\ held(th'[t]) => Polling(th'[t])
              /\ (timed /\ th[t].pc = "recv_loop" /\ th'[t] # th[t]
                    /\ Polling(th[t]) /\ held(th[t])) =>
                    th'[t].nb_objs >= 1
              /\ (timed /\ Receiving(t) /\ th'[t].pc = "ret") =>
                    /\ th'[t].tries >= 1
                    /\ th'[t].ret = th[t].nb_objs]_vars

\* The objects in sequence q, and whether none of them occurs twice in it.
Range(q) == {q[k] : k \in 1 .. Len(q)}
NoRepeat(q) == \A i, j \in 1 .. Len(q) : q[i] = q[j] => i = j

\* C37: for a live parent with its children, each object a child has
\* received is one the parent's sends were accepted with, no child has
\* received an object twice and no two children the same object; each
\* object the parent has received is one a child's sends were accepted with
\* and the parent has received none twice; in each direction the number of
\* objects received is at most the number accepted by send.
C37_NoBroadcastNoDuplicate ==
    \A b \in Blocks :
        hs[Parent(b)] = "live" =>
            LET p == Parent(b)
                kids == ChildPtrs(b)
            IN  /\ \A c \in kids :
                      /\ Range(got[c]) \subseteq Range(SentSeq(p))
                      /\ NoRepeat(got[c])
                      /\ \A d \in kids \ {c} : Range(got[c]) \cap Range(got[d]) = {}
                /\ Range(got[p]) \subseteq UNION {Range(SentSeq(c)) : c \in kids}
                /\ NoRepeat(got[p])
                /\ SumFn([c \in kids |-> Len(got[c])], kids) <= sent[p]
                /\ Len(got[p]) <= SumFn(sent, kids)

\* The two children of one parent have each received an object of the
\* parent's.
C37_Witness ==
    /\ hs[Parent(1)] = "live"
    /\ hs[Child(1, 0)] = "live" /\ hs[Child(1, 1)] = "live"
    /\ Len(got[Child(1, 0)]) >= 1 /\ Len(got[Child(1, 1)]) >= 1

\* The client is in its send loop: scnt is not 0, or a send has returned.
Looping(t) ==
    \/ th[t].pc = "idle" /\ th[t].count > 0
    \/ th[t].pc = "ret" /\ th[t].op = "send"
\* The client has left its loop with scnt == 0.
LoopDone(t) == th[t].pc = "idle" /\ th[t].count = 0 /\ sent[LoopHandle] > 0

\* C38: the client's loop, once begun, ends, the server going on calling
\* mc_recv; no call of the loop returns -1; each call offers the objects
\* from vals[k] on, k being the number accepted so far; the objects the
\* server has received followed by those on the ring are the accepted ones
\* in the order of vals, each once; and when the loop has ended all
\* LoopObjects objects have been accepted.
C38_RetryLoopSendsAll ==
    /\ \A t \in Callers \ OneCaller : Looping(t) ~> LoopDone(t)
    /\ [](\A t \in Callers \ OneCaller :
            /\ Looping(t) =>
                  /\ th[t].pc = "ret" => th[t].ret >= 0
                  /\ th[t].pc = "idle" => LoopObjects - th[t].count = sent[LoopHandle]
                  /\ got[Parent(1)] \o ring[hdr[LoopHandle].rings[MC_SEND_RING]].q
                        = SentSeq(LoopHandle)
            /\ LoopDone(t) =>
                  /\ sent[LoopHandle] = LoopObjects
                  /\ got[Parent(1)] \o ring[hdr[LoopHandle].rings[MC_SEND_RING]].q
                        = [k \in 1 .. LoopObjects |-> <<LoopHandle, k>>])

\* The loop has ended after a send that was taken in part and a send that
\* found the ring full.
C38_Witness ==
    \E t \in Callers \ OneCaller :
        /\ LoopDone(t)
        /\ hdr[LoopHandle].send_full >= 2
        /\ hdr[LoopHandle].send_calls >= 3

\* Thread t enters mc_destroy in this step.
DestroyEnters(t) == th[t].pc = "idle" /\ th'[t].op = "destroy"
\* No thread has claimed slot c and is about to fill it.
NotBeingAttached(c) ==
    \A u \in Threads : ~(th[u].pc = "attach_fill" /\ Child(th[u].h[1], th[u].i) = c)

\* C39: mc_destroy of NULL, of a handle whose cookie is Free and of a
\* handle whose cookie is neither Parent nor Child returns at once and
\* leaves the registry, the rings, every header with its cookie and
\* counters, the memory and the mutex as they were; so does a further
\* mc_destroy of a child handle that was destroyed before and whose slot no
\* attach has claimed since.
C39_DestroyOfFreeChangesNothing ==
    [][\A t \in Threads :
          LET h == th'[t].h
              nothing == \/ h = NULL
                         \/ hdr[h].cookie \notin {MC_PARENT_COOKIE, MC_CHILD_COOKIE}
                         \/ /\ h[2] # PARENT_SLOT /\ hs[h] = "destroyed"
                            /\ NotBeingAttached(h)
          IN  (DestroyEnters(t) /\ nothing) =>
                  /\ th'[t].pc = "ret"
                  /\ UNCHANGED <<registry, ring, hdr, mem, flags, mutex>>]_vars

\* Two calls of mc_destroy on the same child handle have returned, the
\* child's parent being live.
C39_Witness ==
    \E t, u \in Threads :
        /\ t # u
        /\ th[t].pc = "ret" /\ th[t].op = "destroy"
        /\ th[u].pc = "ret" /\ th[u].op = "destroy"
        /\ th[t].h # NULL /\ th[t].h = th[u].h /\ th[t].h[2] # PARENT_SLOT
        /\ hs[Parent(th[t].h[1])] = "live"

\* The steps of mc_destroy, mc_dump and mc_list between mc_list_lock and
\* mc_list_unlock.
LockedPcs == {"destroy_children", "destroy_free", "destroy_zero", "dump", "list"}

====
